---- MODULE Spec2Model ----
(***************************************************************************)
(* Model of the identifier subsystem of attestify/kernel-oss:              *)
(*   src/src/ulid/base32.rs  the Crockford Base32 codec                     *)
(*   src/src/ulid/mod.rs     the 128-bit ULID value                         *)
(*                                                                         *)
(* Rust's u8/u64/u128 are modelled as bit vectors: a function from the bit *)
(* position (0 = least significant) to 0 or 1, of the width of the type.   *)
(* Every operator on them (&, |, <<, >>, +, -, <) is computed bit by bit,  *)
(* so a mask, a shift or a carry that is off by one position shows.  Text  *)
(* is a sequence of bytes (the UTF-8 bytes of a &str).                     *)
(***************************************************************************)
EXTENDS Integers, Sequences, FiniteSets, TLC

VARIABLES
    pc,       \* position of the scenario being run
    src,      \* codec scenario: "value" (integer -> text -> integer) or "text"
    value,    \* codec scenario: the u128 handed to encode
    text,     \* codec scenario: the text handed to decode
    decoded,  \* codec scenario: decode(text)
    upper,    \* codec scenario: decode(to_uppercase(text))
    reenc,    \* codec scenario: encode of the decoded value
    tIn,      \* identifier scenario: the u64 timestamp handed to from_parts
    rIn,      \* identifier scenario: the u128 random handed to from_parts
    origin,   \* identifier scenario: from_parts(tIn, rIn)
    id,       \* identifier scenario: the identifier the chain has reached
    prev,     \* identifier scenario: the identifier increment was last called on
    last,     \* identifier scenario: what that call returned
    count,    \* identifier scenario: the successful increments so far
    inA,      \* ordering scenario: what the first identifier is made from
    inB,      \* ordering scenario: what the second identifier is made from
    idA,      \* ordering scenario: the first identifier
    idB,      \* ordering scenario: the second identifier
    strA,     \* ordering scenario: idA.to_string()
    strB,     \* ordering scenario: idB.to_string()
    decA,     \* ordering scenario: ULID::from_string(strA)
    decB,     \* ordering scenario: ULID::from_string(strB)
    convIn,   \* conversion scenario: what the identifier is made from
    convId,   \* conversion scenario: the identifier
    parsed,   \* conversion scenario: what the text entry points returned
    views,    \* conversion scenario: what the identifier was converted to
    tsBuilder, \* timestamp scenario: the UTCTimestampBuilder
    tsLast,   \* timestamp scenario: the last setter called on it, with its argument
    tsCount,  \* timestamp scenario: the setters called so far
    tsBuilt,  \* timestamp scenario: what build() returned
    tsViews,  \* timestamp scenario: as_nano(), as_milli() and as_sec() of the value
    dtBuilder, \* date-time scenario: the DateTimeBuilder
    dtCalls,  \* date-time scenario: the calls of now() and set_at() so far
    dtClock,  \* date-time scenario: what the system clock read when build() ran
    dtBuilt,  \* date-time scenario: what build() returned
    fnBuilder, \* file-name scenario: the FileNameBuilder
    fnBuilt,  \* file-name scenario: what build() returned
    rlBuilder, \* repository-link scenario: the RepositoryLinkBuilder
    rlBefore, \* repository-link scenario: the builder as the first build() found it
    rlBuilt,  \* repository-link scenario: what the first build() returned
    rlAgain   \* repository-link scenario: what the build() after it returned

codecVars == <<src, value, text, decoded, upper, reenc>>

ulidVars == <<tIn, rIn, origin, id, prev, last, count>>

orderVars == <<inA, inB, idA, idB, strA, strB, decA, decB>>

convVars == <<convIn, convId, parsed, views>>

tsVars == <<tsBuilder, tsLast, tsCount, tsBuilt, tsViews>>

dtVars == <<dtBuilder, dtCalls, dtClock, dtBuilt>>

fnVars == <<fnBuilder, fnBuilt>>

rlVars == <<rlBuilder, rlBefore, rlBuilt, rlAgain>>

\* The variables of the identifier scenarios, and those of the value objects.
identifierVars == <<codecVars, ulidVars, orderVars, convVars>>

valueVars == <<tsVars, dtVars, fnVars, rlVars>>

vars == <<pc, identifierVars, valueVars>>

---------------------------------------------------------------------------
(* Unsigned fixed-width integers as bit vectors.                           *)

\* 2^n for the small n a TLC integer holds.
Pow2(n) == 2 ^ n

Width(x) == Cardinality(DOMAIN x)

\* The integer literal n (n < 2^31) as a w-bit value.
FromNat(n, w) == [i \in 0..(w - 1) |-> IF i < 31 THEN (n \div Pow2(i)) % 2 ELSE 0]

\* The w-bit value whose set bits are exactly the positions in S.
BitsOf(S, w) == [i \in 0..(w - 1) |-> IF i \in S THEN 1 ELSE 0]

\* A value written as hexadecimal digits, most significant first.
FromNibbles(h) ==
    [i \in 0..(4 * Len(h) - 1) |-> (h[Len(h) - (i \div 4)] \div Pow2(i % 4)) % 2]

\* The numeric value of a bit vector, for the values below 2^31 that a TLC
\* integer holds (-1 for the others, which no table can be indexed with).
RECURSIVE ToNatBits(_, _, _)
ToNatBits(x, lo, hi) ==
    IF lo > hi THEN 0
    ELSE IF lo = hi THEN x[lo] * Pow2(lo)
    ELSE LET mid == (lo + hi) \div 2
         IN  ToNatBits(x, lo, mid) + ToNatBits(x, mid + 1, hi)

ToNat(x) ==
    IF \E i \in DOMAIN x : i >= 31 /\ x[i] = 1 THEN -1
    ELSE ToNatBits(x, 0, Cardinality({i \in DOMAIN x : i < 31}) - 1)

\* x is a u128.  The loops below state the types of their variables on entry
\* to each iteration, which also has the variables evaluated there, one
\* iteration at a time, and not all at once where the result is first read.
IsU128(x) == x \in [0..127 -> {0, 1}]

\* The bit vector x as the program holds a value: every bit computed once,
\* where the value is made, and not again at each later read of a bit.
Stored(x) == IF x \in [DOMAIN x -> {0, 1}] THEN x ELSE x

\* a & b
And(a, b) == [i \in DOMAIN a |-> IF a[i] = 1 /\ b[i] = 1 THEN 1 ELSE 0]

\* a | b
Or(a, b) == [i \in DOMAIN a |-> IF a[i] = 1 \/ b[i] = 1 THEN 1 ELSE 0]

\* a << k: bits shifted past the top are lost (Rust checks only k < width).
Shl(a, k) == [i \in DOMAIN a |-> IF i >= k THEN a[i - k] ELSE 0]

\* a >> k (logical)
Shr(a, k) == [i \in DOMAIN a |-> IF (i + k) \in DOMAIN a THEN a[i + k] ELSE 0]

\* `a as uN`: zero extension or truncation to w bits.
Cast(a, w) == [i \in 0..(w - 1) |-> IF i \in DOMAIN a THEN a[i] ELSE 0]

\* The carry into bit i of a + b: some lower bit generates a carry (both bits
\* are 1) and every bit between propagates it (exactly one bit is 1).
CarryInto(x, y, i) ==
    IF \E j \in 0..(i - 1) :
          /\ x[j] = 1
          /\ y[j] = 1
          /\ \A k \in (j + 1)..(i - 1) : x[k] # y[k]
    THEN 1 ELSE 0

\* a + b: the wrapped sum and whether the addition overflowed the width.
Add(x, y) ==
    [sum      |-> [i \in DOMAIN x |-> (x[i] + y[i] + CarryInto(x, y, i)) % 2],
     overflow |-> CarryInto(x, y, Width(x)) = 1]

\* The borrow into bit i of a - b: some lower bit generates a borrow (0 - 1) and
\* every bit between propagates it (the bits are equal).
BorrowInto(x, y, i) ==
    IF \E j \in 0..(i - 1) :
          /\ x[j] = 0
          /\ y[j] = 1
          /\ \A k \in (j + 1)..(i - 1) : x[k] = y[k]
    THEN 1 ELSE 0

\* a - b: the wrapped difference and whether the subtraction underflowed.
Sub(x, y) ==
    [diff      |-> [i \in DOMAIN x |-> (x[i] - y[i] - BorrowInto(x, y, i) + 2) % 2],
     underflow |-> BorrowInto(x, y, Width(x)) = 1]

\* a < b, unsigned: the most significant differing bit decides.
Lt(a, b) ==
    \E i \in DOMAIN a :
        /\ a[i] < b[i]
        /\ \A j \in DOMAIN a : j > i => a[j] = b[j]

---------------------------------------------------------------------------
(* base32.rs                                                                *)

ULID_LEN == 26

\* The alphabet of RFC 4648 base32, "ABCDEFGHIJKLMNOPQRSTUVWXYZ234567": its digits
\* rank after its letters.
AlphabetRfc4648 ==
    <<65, 66, 67, 68, 69, 70, 71, 72, 73, 74, 75, 76, 77, 78, 79, 80,
      81, 82, 83, 84, 85, 86, 87, 88, 89, 90, 50, 51, 52, 53, 54, 55>>

\* The alphabet of RFC 4648 base32hex, "0123456789ABCDEFGHIJKLMNOPQRSTUV": the
\* letters I, L, O and U are kept.
AlphabetBase32Hex ==
    <<48, 49, 50, 51, 52, 53, 54, 55, 56, 57, 65, 66, 67, 68, 69, 70,
      71, 72, 73, 74, 75, 76, 77, 78, 79, 80, 81, 82, 83, 84, 85, 86>>

ALPHABET ==
    <<48, 49, 50, 51, 52, 53, 54, 55, 56, 57, 65, 66, 67, 68, 69, 70,
      71, 72, 74, 75, 77, 78, 80, 81, 82, 83, 84, 86, 87, 88, 89, 90>>

NO_VALUE == 255

\* LOOKUP as the generator in base32_tests.rs builds it, without its lowercase
\* branch: a case-sensitive table.
LookupUpperOnly ==
    [b \in 1..256 |->
        IF \E k \in 1..32 : ALPHABET[k] = b - 1
        THEN (CHOOSE k \in 1..32 : ALPHABET[k] = b - 1) - 1
        ELSE 255]

\* LOOKUP with Crockford's decoding aliases: I, i, L, l read as 1 and O, o as 0.
LookupWithAliases ==
    [b \in 1..256 |->
        IF b - 1 \in {73, 105, 76, 108} THEN 1
        ELSE IF b - 1 \in {79, 111} THEN 0
        ELSE IF \E k \in 1..32 : ALPHABET[k] \in {b - 1, b - 33} /\ (ALPHABET[k] = b - 1 \/ ALPHABET[k] >= 65)
        THEN (CHOOSE k \in 1..32 : ALPHABET[k] \in {b - 1, b - 33} /\ (ALPHABET[k] = b - 1 \/ ALPHABET[k] >= 65)) - 1
        ELSE 255]

\* LOOKUP as the generator in base32_tests.rs builds it without its is_numeric
\* test: the byte 32 above each symbol is entered too, which adds 'U' (the
\* digit '5' plus 32) with the value 5.
LookupLowercaseOfAll ==
    [b \in 1..256 |->
        IF \E k \in 1..32 : ALPHABET[k] = b - 1
        THEN (CHOOSE k \in 1..32 : ALPHABET[k] = b - 1) - 1
        ELSE IF \E k \in 1..32 : ALPHABET[k] + 32 = b - 1
        THEN (CHOOSE k \in 1..32 : ALPHABET[k] + 32 = b - 1) - 1
        ELSE 255]

\* LOOKUP with entries for the ASCII bytes only: [u8; 128].
LookupAsciiOnly ==
    [b \in 1..128 |->
        IF \E k \in 1..32 : ALPHABET[k] = b - 1 \/ (ALPHABET[k] >= 65 /\ ALPHABET[k] + 32 = b - 1)
        THEN (CHOOSE k \in 1..32 :
                 ALPHABET[k] = b - 1 \/ (ALPHABET[k] >= 65 /\ ALPHABET[k] + 32 = b - 1)) - 1
        ELSE 255]

LOOKUP ==
    <<255, 255, 255, 255, 255, 255, 255, 255, 255, 255, 255, 255, 255, 255, 255, 255,
      255, 255, 255, 255, 255, 255, 255, 255, 255, 255, 255, 255, 255, 255, 255, 255,
      255, 255, 255, 255, 255, 255, 255, 255, 255, 255, 255, 255, 255, 255, 255, 255,
      0, 1, 2, 3, 4, 5, 6, 7, 8, 9, 255, 255, 255, 255, 255, 255,
      255, 10, 11, 12, 13, 14, 15, 16, 17, 255, 18, 19, 255, 20, 21, 255,
      22, 23, 24, 25, 26, 255, 27, 28, 29, 30, 31, 255, 255, 255, 255, 255,
      255, 10, 11, 12, 13, 14, 15, 16, 17, 255, 18, 19, 255, 20, 21, 255,
      22, 23, 24, 25, 26, 255, 27, 28, 29, 30, 31, 255, 255, 255, 255, 255,
      255, 255, 255, 255, 255, 255, 255, 255, 255, 255, 255, 255, 255, 255, 255, 255,
      255, 255, 255, 255, 255, 255, 255, 255, 255, 255, 255, 255, 255, 255, 255, 255,
      255, 255, 255, 255, 255, 255, 255, 255, 255, 255, 255, 255, 255, 255, 255, 255,
      255, 255, 255, 255, 255, 255, 255, 255, 255, 255, 255, 255, 255, 255, 255, 255,
      255, 255, 255, 255, 255, 255, 255, 255, 255, 255, 255, 255, 255, 255, 255, 255,
      255, 255, 255, 255, 255, 255, 255, 255, 255, 255, 255, 255, 255, 255, 255, 255,
      255, 255, 255, 255, 255, 255, 255, 255, 255, 255, 255, 255, 255, 255, 255, 255,
      255, 255, 255, 255, 255, 255, 255, 255, 255, 255, 255, 255, 255, 255, 255, 255>>

\* The mask 0x0f for 0x1f: four bits of each digit.
Mask0f == FromNat(15, 128)

\* The literals 0x1f and 0 as u128.
Mask1f == FromNat(31, 128)

Zero128 == FromNat(0, 128)

\* Result<u128, DecodeError>
Ok(v) == [ok |-> TRUE, val |-> v, err |-> "none"]

Err(e) == [ok |-> FALSE, val |-> Zero128, err |-> e]

\* encode_to_array filling the buffer from the left: buffer[i] for
\* buffer[ULID_LEN - 1 - i].
RECURSIVE EncodeLoopLeftToRight(_, _, _)
EncodeLoopLeftToRight(v, buffer, i) ==
    IF IsU128(v) /\ Len(buffer) = ULID_LEN /\ i >= ULID_LEN THEN buffer
    ELSE EncodeLoopLeftToRight(
            Shr(v, 5),
            [buffer EXCEPT ![i + 1] = ALPHABET[ToNat(Cast(And(v, Mask1f), 64)) + 1]],
            i + 1)

encode_to_array_left_to_right(v, buffer) == EncodeLoopLeftToRight(v, buffer, 0)

\* encode_to_array stopping once the value is used up: no left padding.
RECURSIVE EncodeLoopUnpadded(_, _, _)
EncodeLoopUnpadded(v, buffer, i) ==
    IF IsU128(v) /\ Len(buffer) = ULID_LEN /\ (i >= ULID_LEN \/ v = Zero128) THEN buffer
    ELSE EncodeLoopUnpadded(
            Shr(v, 5),
            [buffer EXCEPT ![(ULID_LEN - 1 - i) + 1] =
                ALPHABET[ToNat(Cast(And(v, Mask1f), 64)) + 1]],
            i + 1)

\* encode_to_array shifting by four bits for five: the digits overlap and the
\* first one holds bits 100..104.
RECURSIVE EncodeLoopShiftFour(_, _, _)
EncodeLoopShiftFour(v, buffer, i) ==
    IF IsU128(v) /\ Len(buffer) = ULID_LEN /\ i >= ULID_LEN THEN buffer
    ELSE EncodeLoopShiftFour(
            Shr(v, 4),
            [buffer EXCEPT ![(ULID_LEN - 1 - i) + 1] =
                ALPHABET[ToNat(Cast(And(v, Mask1f), 64)) + 1]],
            i + 1)

\* The loop of encode_to_array, from iteration i on: one digit per iteration,
\* written from the right end of the buffer.
RECURSIVE EncodeLoop(_, _, _)
EncodeLoop(v, buffer, i) ==
    IF IsU128(v) /\ Len(buffer) = ULID_LEN /\ i >= ULID_LEN THEN buffer
    ELSE EncodeLoop(
            Shr(v, 5),
            [buffer EXCEPT ![(ULID_LEN - 1 - i) + 1] =
                ALPHABET[ToNat(Cast(And(v, Mask1f), 64)) + 1]],
            i + 1)

encode_to_array(v, buffer) == EncodeLoop(v, buffer, 0)

\* String::from_utf8 of the filled buffer: the bytes unchanged (the buffer holds
\* ALPHABET bytes only, all ASCII, so the conversion does not fail).
encode(v) == encode_to_array(v, [i \in 1..ULID_LEN |-> 0])

\* The loop of decode, from byte i on, with the value accumulated so far.
\* Indexing LOOKUP is bounds-checked: an index past the table is a panic.
RECURSIVE DecodeLoop(_, _, _)
DecodeLoop(bytes, v, i) ==
    IF IsU128(v) /\ i >= ULID_LEN THEN Ok(v)
    ELSE IF bytes[i + 1] + 1 \notin DOMAIN LOOKUP THEN Err("panic")
    ELSE LET digit == LOOKUP[bytes[i + 1] + 1]
         IN  IF digit # NO_VALUE
             THEN DecodeLoop(bytes, Or(Shl(v, 5), Cast(FromNat(digit, 8), 128)), i + 1)
             ELSE Err("InvalidChar")

\* decode validating the characters before the length.
decode_chars_first(encoded) ==
    IF \E i \in 1..Len(encoded) : LOOKUP[encoded[i] + 1] = NO_VALUE THEN Err("InvalidChar")
    ELSE IF Len(encoded) # ULID_LEN THEN Err("InvalidLength")
    ELSE DecodeLoop(encoded, Zero128, 0)

\* decode with a range check: a first digit above 7, which does not fit 128 bits,
\* is rejected.
decode_leading_digit_checked(encoded) ==
    IF Len(encoded) # ULID_LEN THEN Err("InvalidLength")
    ELSE IF LOOKUP[encoded[1] + 1] # NO_VALUE /\ LOOKUP[encoded[1] + 1] > 7
         THEN Err("InvalidChar")
    ELSE DecodeLoop(encoded, Zero128, 0)

decode(encoded) ==
    IF Len(encoded) # ULID_LEN THEN Err("InvalidLength")
    ELSE DecodeLoop(encoded, Zero128, 0)

---------------------------------------------------------------------------
(* mod.rs                                                                   *)

\* bitmask!(len) in a context of type uN with N = w: ((1 << len) - 1).
bitmask(len, w) == Sub(Shl(FromNat(1, w), len), FromNat(1, w)).diff

TIME_BITS == 48

RAND_BITS == 80

\* bitmask!(Self::TIME_BITS) as u64 and bitmask!(Self::RAND_BITS) as u128
TimeMask == bitmask(TIME_BITS, 64)

RandMask == bitmask(RAND_BITS, 128)

\* const MAX_RANDOM in increment
MAX_RANDOM == bitmask(RAND_BITS, 128)

\* The literal 1 as u128.
One128 == FromNat(1, 128)

\* Option<ULID>.  overflow records that the u128 addition behind the value
\* overflowed (a panic in a build with overflow checks, a wrapped sum otherwise).
None == [some |-> FALSE, ulid |-> Zero128, overflow |-> FALSE]

Some(u, o) == [some |-> TRUE, ulid |-> u, overflow |-> o]

\* from_parts without the mask on random: its bits above RAND_BITS reach the
\* time field.
from_parts_unmasked_random(timestamp_ms, random) ==
    LET time_part == Cast(And(timestamp_ms, TimeMask), 128)
    IN  Or(Shl(time_part, RAND_BITS), random)

\* from_parts shifting the time by TIME_BITS for RAND_BITS.
from_parts_shift_time_bits(timestamp_ms, random) ==
    LET time_part == Cast(And(timestamp_ms, TimeMask), 128)
        rand_part == And(random, RandMask)
    IN  Or(Shl(time_part, TIME_BITS), rand_part)

\* ULID::from_parts
from_parts(timestamp_ms, random) ==
    LET time_part == Cast(And(timestamp_ms, TimeMask), 128)
        rand_part == And(random, RandMask)
    IN  Or(Shl(time_part, RAND_BITS), rand_part)

\* impl From<u128> for ULID, and the tuple constructor ULID(value)
from_u128(v) == v

\* from_string reporting every failure of decode as InvalidChar.
from_string_any_error_invalid_char(encoded) ==
    LET r == decode(encoded)
    IN  IF r.ok THEN Ok(from_u128(r.val)) ELSE Err("InvalidChar")

\* ULID::from_string: match base32::decode(encoded) { Ok(int_val) =>
\* Ok(ULID(int_val)), Err(err) => Err(err) }
from_string(encoded) ==
    LET r == decode(encoded)
    IN  IF r.ok THEN Ok(from_u128(r.val)) ELSE Err(r.err)

\* ULID::nil
nil == Zero128

\* ULID::random
random(self) == And(self, RandMask)

\* ULID::to_string
to_string(self) == encode(self)

\* ULID::array_to_str: the buffer filled by encode_to_array, read as a str
\* (from_utf8_unchecked_mut leaves the bytes as they are).
array_to_str(self, buf) == encode_to_array(self, buf)

\* is_nil looking at the low 64 bits only: self.0 as u64 == 0.
is_nil_low_half(self) == Cast(self, 64) = FromNat(0, 64)

\* ULID::is_nil
is_nil(self) == self = Zero128

\* increment refusing only when the whole value is all ones: the carry out of a
\* saturated random field reaches the time field.
increment_guard_whole_value(self) ==
    IF self = BitsOf(0..127, 128) THEN None
    ELSE LET next == Add(self, One128) IN Some(next.sum, next.overflow)

\* increment wrapping a saturated random field to 0 and keeping the time.
increment_wrap_random(self) ==
    LET next == Add(self, One128)
    IN  IF And(self, MAX_RANDOM) = MAX_RANDOM
        THEN Some(Sub(self, MAX_RANDOM).diff, FALSE)
        ELSE Some(next.sum, next.overflow)

\* increment without its guard: always Some(ULID(self.0 + 1)).
increment_unguarded(self) ==
    LET next == Add(self, One128) IN Some(next.sum, next.overflow)

\* ULID::increment
increment(self) ==
    LET next == Add(self, One128)
    IN  IF And(self, MAX_RANDOM) = MAX_RANDOM
        THEN None
        ELSE Some(next.sum, next.overflow)

\* The derived Ord of ULID(pub u128): self < other
ulid_lt(self, other) == Lt(self, other)

\* u128::from_be_bytes and u128::to_be_bytes, a byte being a number 0..255:
\* bytes[0] (here bytes[1]) holds bits 127..120.
from_be_bytes(bytes) == [j \in 0..127 |-> FromNat(bytes[16 - (j \div 8)], 8)[j % 8]]

to_be_bytes(v) == [k \in 1..16 |-> ToNat([b \in 0..7 |-> v[8 * (16 - k) + b]])]

\* u128::to_le_bytes: bytes[0] holds bits 7..0.
to_le_bytes(v) == [k \in 1..16 |-> ToNat([b \in 0..7 |-> v[8 * (k - 1) + b]])]

\* ULID::from_bytes
from_bytes(bytes) == from_be_bytes(bytes)

\* to_bytes in little-endian order.
to_bytes_little_endian(self) == to_le_bytes(self)

\* ULID::to_bytes
to_bytes(self) == to_be_bytes(self)

\* impl Default for ULID
default == nil

\* impl From<ULID> for String
string_from_ulid(ulid) == to_string(ulid)

\* From<(u64, u64)> with the halves the other way round.
ulid_from_pair_swapped(msb, lsb) == Or(Shl(Cast(lsb, 128), 64), Cast(msb, 128))

\* impl From<(u64, u64)> for ULID: u128::from(msb) << 64 | u128::from(lsb)
ulid_from_pair(msb, lsb) == Or(Shl(Cast(msb, 128), 64), Cast(lsb, 128))

\* impl From<ULID> for (u64, u64):
\* ((ulid.0 >> 64) as u64, (ulid.0 & bitmask!(64)) as u64)
pair_from_ulid(ulid) == <<Cast(Shr(ulid, 64), 64), Cast(And(ulid, bitmask(64, 128)), 64)>>

\* impl From<ULID> for u128
u128_from_ulid(ulid) == ulid

\* impl From<[u8; 16]> for ULID and impl From<ULID> for [u8; 16]
ulid_from_array(bytes) == from_be_bytes(bytes)

array_from_ulid(ulid) == to_be_bytes(ulid)

\* impl FromStr for ULID and impl TryFrom<&str> for ULID
from_str(s) == from_string(s)

try_from(str) == from_string(str)

\* impl Display for ULID: what fmt writes, array_to_str of a zeroed buffer.
fmt(self) == array_to_str(self, [i \in 1..ULID_LEN |-> 0])

---------------------------------------------------------------------------
(* Inputs of the codec scenarios.                                           *)

\* Integer inputs: every single bit, every run of low ones (0 .. 2^128 - 1),
\* every run of high ones, and the values of base32_tests.rs.
Val4141 == FromNibbles(<<4,1,4,1,4,1,4,1,4,1,4,1,4,1,4,1,4,1,4,1,4,1,4,1,4,1,4,1,4,1,4,1>>)

Val4d4e == FromNibbles(<<4,13,4,14,3,8,5,0,5,1,4,4,4,10,5,9,4,5,4,2,3,4,3,3,5,10,4,1,3,7,5,6>>)

Val0f0f == FromNibbles(<<0,15,0,15,0,15,0,15,0,15,0,15,0,15,0,15,0,15,0,15,0,15,0,15,0,15,0,15,0,15,0,15>>)

ValueInputs ==
    {BitsOf({p}, 128) : p \in 0..127}
        \cup {BitsOf(0..(p - 1), 128) : p \in 0..128}
        \cup {BitsOf(p..127, 128) : p \in 1..127}
        \cup {Val4141, Val4d4e, Val0f0f}

\* "21850M2GA1850M2GA1850M2GA1"
Text2185 ==
    <<50, 49, 56, 53, 48, 77, 50, 71, 65, 49, 56, 53, 48, 77, 50, 71, 65, 49, 56, 53,
      48, 77, 50, 71, 65, 49>>

\* "2D9RW50MA499CMAGHM6DD42DTP"
Text2D9R ==
    <<50, 68, 57, 82, 87, 53, 48, 77, 65, 52, 57, 57, 67, 77, 65, 71, 72, 77, 54, 68,
      68, 52, 50, 68, 84, 80>>

\* "01BX5ZZKBKAZZZZZZZZZZZZZZZ"
Text01BX ==
    <<48, 49, 66, 88, 53, 90, 90, 75, 66, 75, 65, 90, 90, 90, 90, 90, 90, 90, 90, 90,
      90, 90, 90, 90, 90, 90>>

\* "7ZZZZZZZZZZZZZZZZZZZZZZZZZ"
Text7ZZZ ==
    <<55, 90, 90, 90, 90, 90, 90, 90, 90, 90, 90, 90, 90, 90, 90, 90, 90, 90, 90, 90,
      90, 90, 90, 90, 90, 90>>

FixtureTexts == {Text2185, Text2D9R, Text01BX, Text7ZZZ}

\* s with the ASCII letters at the positions in P in lowercase.
LowerAt(s, P) ==
    [i \in 1..Len(s) |-> IF i \in P /\ s[i] \in 65..90 THEN s[i] + 32 ELSE s[i]]

\* s with the bytes from position p on overwritten by unit, which is moved left
\* where it would not fit (the length is kept and no character is cut).
Overwrite(s, p, unit) ==
    LET q == IF p + Len(unit) - 1 > Len(s) THEN Len(s) - Len(unit) + 1 ELSE p
    IN  [i \in 1..Len(s) |-> IF i >= q /\ i < q + Len(unit) THEN unit[i - q + 1] ELSE s[i]]

\* s cut or repeated to n bytes.
Resize(s, n) == [i \in 1..n |-> s[((i - 1) % Len(s)) + 1]]

\* One character of a &str as its UTF-8 bytes: every ASCII byte, and multi-byte
\* characters that between them hold every byte a valid UTF-8 string can hold
\* (128..191 as continuation bytes, 194..244 as lead bytes).
Utf8Units ==
    {<<b>> : b \in 0..127}
        \cup {<<lead, 128 + (lead % 64)>> : lead \in 194..223}
        \cup {<<194, cont>> : cont \in 128..191}
        \cup {<<lead, 160, 128>> : lead \in (224..239) \ {237}}
        \cup {<<237, 128, 128>>, <<240, 144, 128, 128>>, <<244, 128, 128, 128>>}
        \cup {<<lead, 128, 128, 128>> : lead \in 241..243}

\* Where a character of the sample is replaced: the first character (whose digit
\* decides whether the value fits 128 bits), the one base32_tests.rs replaces,
\* and the last.
OverwritePositions == {1, 8, 26}

\* How far from ULID_LEN the lengths of the wrong-length inputs go.
MaxLenSlack == 2

WrongLengths ==
    {0, 1} \cup {n \in (ULID_LEN - MaxLenSlack)..(ULID_LEN + MaxLenSlack) : n # ULID_LEN}

TextInputs ==
    FixtureTexts
        \cup {LowerAt(s, P) : s \in FixtureTexts,
                              P \in {1..ULID_LEN, {1}, {ULID_LEN}, {2, 4, 9, 18, 25}}}
        \cup {Overwrite(Text2D9R, p, u) : p \in OverwritePositions, u \in Utf8Units}
        \cup {Resize(Text2D9R, n) : n \in WrongLengths}
        \cup {Overwrite(Resize(Text2D9R, n), n, <<c>>) : n \in WrongLengths \ {0}, c \in {91, 73, 108}}
        \cup {Overwrite(Resize(Text2D9R, n), 1, <<195, 151>>) : n \in WrongLengths \ {0, 1}}
        \cup {Overwrite(Text7ZZZ, 1, <<ALPHABET[k]>>) : k \in 1..32}

\* str::to_uppercase on ASCII text.
to_uppercase(s) == [i \in 1..Len(s) |-> IF s[i] \in 97..122 THEN s[i] - 32 ELSE s[i]]

IsAscii(s) == \A i \in 1..Len(s) : s[i] < 128

---------------------------------------------------------------------------
(* The codec scenarios: an integer is encoded and the text decoded again;   *)
(* a text is decoded, decoded again in uppercase, and the value encoded.    *)

NotRun == Err("not run")

NoText == <<>>

NoInput == [kind |-> "none", time |-> FromNat(0, 64), rand |-> Zero128, raw |-> Zero128]

\* The variables of a scenario that is not the one being run.
CodecIdle ==
    /\ src = "none"
    /\ value = Zero128
    /\ text = NoText
    /\ decoded = NotRun
    /\ upper = NotRun
    /\ reenc = NoText

UlidIdle ==
    /\ tIn = FromNat(0, 64)
    /\ rIn = Zero128
    /\ origin = nil
    /\ id = nil
    /\ prev = nil
    /\ last = None
    /\ count = 0

OrderIdle ==
    /\ inA = NoInput
    /\ inB = NoInput
    /\ idA = nil
    /\ idB = nil
    /\ strA = NoText
    /\ strB = NoText
    /\ decA = NotRun
    /\ decB = NotRun

\* No input, no result of a text entry point and no conversion yet.
NoConv ==
    [kind |-> "none", raw |-> Zero128, bytes |-> <<>>, msb |-> FromNat(0, 64),
     lsb |-> FromNat(0, 64), str |-> NoText]

NoParse == [from_string |-> NotRun, from_str |-> NotRun, try_from |-> NotRun]

NoViews ==
    [is_nil |-> FALSE,
     to_bytes |-> <<>>, array |-> <<>>, from_bytes |-> Zero128, from_array |-> Zero128,
     pair |-> <<FromNat(0, 64), FromNat(0, 64)>>, from_pair |-> Zero128,
     u128 |-> Zero128, from_u128 |-> Zero128,
     to_string |-> NoText, fmt |-> NoText, string |-> NoText, array_to_str |-> NoText]

ConvIdle ==
    /\ convIn = NoConv
    /\ convId = nil
    /\ parsed = NoParse
    /\ views = NoViews

---------------------------------------------------------------------------
(* error/mod.rs, and the shapes the value objects share.  Their text is a   *)
(* String: a sequence of chars, each the number of its code point.          *)

\* The message of an Error: its literal text, and the values format! puts in
\* the {} places of that text (none for a message that is a literal).
Message(literal, args) == [literal |-> literal, args |-> args]

\* Error::new(audience, kind, message)
Error_new(audience, kind, message) ==
    [audience |-> audience, kind |-> kind, message |-> message]

\* Error::for_user(kind, message)
for_user(kind, message) == Error_new("User", kind, message)

\* Error::for_system(kind, message)
for_system(kind, message) == Error_new("System", kind, message)

NoError == Error_new("none", "none", Message("", <<>>))

\* Option<T>: None and Some(v).  zero is a value of T, held where there is none.
Nothing(zero) == [some |-> FALSE, value |-> zero]

Just(v) == [some |-> TRUE, value |-> v]

\* Result<T, Error>: Ok(v) and Err(e).  zero is a value of T, held by an Err.
Success(v) == [ok |-> TRUE, val |-> v, error |-> NoError]

Failure(e, zero) == [ok |-> FALSE, val |-> zero, error |-> e]

Zero64 == FromNat(0, 64)

\* UTCTimestamp { timestamp: 0 }, DateTime { value: 0 }, FileName { value: "" }
\* and RepositoryLink { url } of an empty link: the values an Err holds.
NoTimestamp == [timestamp |-> Zero128]

NoDateTime == [value |-> Zero64]

NoFileName == [value |-> <<>>]

NoLink == [url |-> [value |-> <<>>]]

\* UTCTimestampBuilder::default(), DateTimeBuilder::default(),
\* FileNameBuilder::default() and RepositoryLinkBuilder::default()
UTCTimestampBuilder_default == [timestamp |-> Nothing(Zero128)]

DateTimeBuilder_default == [value |-> Nothing(Zero64), now |-> FALSE]

FileNameBuilder_default == [value |-> Nothing(<<>>)]

RepositoryLinkBuilder_default ==
    [allowed_schema |-> <<>>, default_scheme |-> Nothing(<<>>), repo_link |-> Nothing(<<>>)]

\* No setter called, no view taken, no clock read, build() not called.
NoCall == [op |-> "none", before |-> "none", ms |-> Zero64, ns |-> Zero128]

NoTsViews == [as_nano |-> Zero128, as_milli |-> Zero64, as_sec |-> Zero64]

NoClock == [before_epoch |-> FALSE, millis |-> Zero128]

NotBuilt(zero) == Failure(NoError, zero)

TsIdle ==
    /\ tsBuilder = UTCTimestampBuilder_default
    /\ tsLast = NoCall
    /\ tsCount = 0
    /\ tsBuilt = NotBuilt(NoTimestamp)
    /\ tsViews = NoTsViews

DtIdle ==
    /\ dtBuilder = DateTimeBuilder_default
    /\ dtCalls = <<>>
    /\ dtClock = NoClock
    /\ dtBuilt = NotBuilt(NoDateTime)

FnIdle ==
    /\ fnBuilder = FileNameBuilder_default
    /\ fnBuilt = NotBuilt(NoFileName)

RlIdle ==
    /\ rlBuilder = RepositoryLinkBuilder_default
    /\ rlBefore = RepositoryLinkBuilder_default
    /\ rlBuilt = NotBuilt(NoLink)
    /\ rlAgain = NotBuilt(NoLink)

ValuesIdle == TsIdle /\ DtIdle /\ FnIdle /\ RlIdle

IdentifiersIdle == CodecIdle /\ UlidIdle /\ OrderIdle /\ ConvIdle

---------------------------------------------------------------------------
(* The codec scenario.                                                      *)

CodecInit ==
    /\ decoded = NotRun
    /\ upper = NotRun
    /\ reenc = NoText
    /\ \/ /\ src = "value"
          /\ pc = "value"
          /\ value \in ValueInputs
          /\ text = NoText
       \/ /\ src = "text"
          /\ pc = "text"
          /\ value = Zero128
          /\ text \in TextInputs

\* base32::encode(value)
Encode ==
    /\ pc = "value"
    /\ text' = encode(value)
    /\ pc' = "text"
    /\ UNCHANGED <<src, value, decoded, upper, reenc, ulidVars, orderVars, convVars, valueVars>>

\* base32::decode(text)
Decode ==
    /\ pc = "text"
    /\ decoded' = decode(text)
    /\ pc' = "decoded"
    /\ UNCHANGED <<src, value, text, upper, reenc, ulidVars, orderVars, convVars, valueVars>>

\* base32::decode(&text.to_uppercase())
DecodeUpper ==
    /\ pc = "decoded"
    /\ IsAscii(text)
    /\ upper' = decode(to_uppercase(text))
    /\ pc' = "upper"
    /\ UNCHANGED <<src, value, text, decoded, reenc, ulidVars, orderVars, convVars, valueVars>>

\* base32::encode(decode(text).unwrap())
ReEncode ==
    /\ pc = "upper"
    /\ decoded.ok
    /\ reenc' = encode(decoded.val)
    /\ pc' = "reencoded"
    /\ UNCHANGED <<src, value, text, decoded, upper, ulidVars, orderVars, convVars, valueVars>>

Init == CodecInit /\ UlidIdle /\ OrderIdle /\ ConvIdle /\ ValuesIdle

Next == Encode \/ Decode \/ DecodeUpper \/ ReEncode

Spec == Init /\ [][Next]_vars

---------------------------------------------------------------------------
(* Claims about the codec, checked under Spec.                              *)

\* The alphabet as the specification spells it: the digits and the uppercase
\* letters without I, L, O, U; and the bytes decode accepts: those and the
\* lowercase forms of the letters.
SpecAlphabet == (48..57) \cup ((65..90) \ {73, 76, 79, 85})

AcceptedBytes == SpecAlphabet \cup {c + 32 : c \in SpecAlphabet \ (48..57)}

\* A 26-character string over the alphabet, letters in either case.
IsAlphabetText(s) == Len(s) = 26 /\ \A i \in 1..Len(s) : s[i] \in AcceptedBytes

\* ... whose first character is one of '0'..'7'.
IsCanonicalText(s) == IsAlphabetText(s) /\ s[1] \in 48..55

HasDecoded == pc \in {"decoded", "upper", "reencoded"}

\* C1: for every 128-bit value v, decode(encode(v)) is Ok(v).
C1_ValueRoundTrip == (src = "value" /\ HasDecoded) => decoded = Ok(value)

\* A value with its top bit and a low bit set has been encoded and decoded.
C1_Witness == src = "value" /\ pc = "decoded" /\ value[127] = 1 /\ value[0] = 1

\* C7: for every 26-character string s over the alphabet, in either case, whose
\* first character has a digit value of 0..7, encode(decode(s)) is s in uppercase.
C7_TextRoundTrip ==
    (pc = "reencoded" /\ IsCanonicalText(text)) => reenc = to_uppercase(text)

\* A canonical text holding lowercase letters has been decoded and encoded again.
C7_Witness ==
    /\ src = "text"
    /\ pc = "reencoded"
    /\ IsCanonicalText(text)
    /\ text # to_uppercase(text)

\* C8: decode returns Err(InvalidLength) for every input whose length is not 26,
\* whatever its characters are.
C8_WrongLength == (HasDecoded /\ Len(text) # 26) => decoded = Err("InvalidLength")

\* An input one byte too short that holds a non-alphabet byte has been decoded.
C8_Witness ==
    /\ pc = "decoded"
    /\ Len(text) = 25
    /\ \E i \in 1..Len(text) : text[i] \notin AcceptedBytes

\* C9: for an input of length 26, decode returns Err(InvalidChar) exactly when
\* some byte is outside the alphabet and its lowercase letters.
C9_InvalidChar ==
    (HasDecoded /\ Len(text) = 26) =>
        (decoded = Err("InvalidChar") <=> \E i \in 1..Len(text) : text[i] \notin AcceptedBytes)

\* "2D9RW50[A499CMAGHM6DD42DTP" has been decoded and rejected.
C9_Witness ==
    /\ pc = "decoded"
    /\ text = Overwrite(Text2D9R, 8, <<91>>)
    /\ decoded = Err("InvalidChar")

\* C10: for every 26-character string s of alphabet symbols in any mix of cases,
\* decode(s) = decode(to_uppercase(s)).
C10_CaseInsensitive == (pc = "upper" /\ IsAlphabetText(text)) => decoded = upper

\* A text holding lowercase letters and its uppercase form have been decoded.
C10_Witness ==
    /\ pc = "upper"
    /\ IsAlphabetText(text)
    /\ text # to_uppercase(text)
    /\ decoded.ok

\* The digit a character stands for, as the specification ranks the alphabet:
\* the number of alphabet symbols below it, letters read in uppercase.
SpecDigit(c) ==
    LET u == IF c \in 97..122 THEN c - 32 ELSE c
    IN  Cardinality({d \in SpecAlphabet : d < u})

\* The low 128 bits of the 130-bit number a 26-digit string spells: bit j is
\* bit j mod 5 of the digit j div 5 places from the right.
DigitStringMod128(s) ==
    [j \in 0..127 |-> (SpecDigit(s[ULID_LEN - (j \div 5)]) \div Pow2(j % 5)) % 2]

\* C11: decode accepts a 26-character string of alphabet symbols whose first
\* digit is in 8..31 and returns Ok of the 130-bit value of the digit string
\* modulo 2^128 (its two most significant bits dropped).
C11_LeadingDigitWraps ==
    (HasDecoded /\ IsAlphabetText(text) /\ SpecDigit(text[1]) \in 8..31) =>
        decoded = Ok(DigitStringMod128(text))

\* "ZZZZZZZZZZZZZZZZZZZZZZZZZZ", a 130-bit number of all ones, has been decoded to
\* 2^128 - 1.
C11_Witness ==
    /\ pc = "decoded"
    /\ text = Overwrite(Text7ZZZ, 1, <<90>>)
    /\ decoded = Ok(BitsOf(0..127, 128))

\* A result of decode is one of Ok(value), with a 128-bit value,
\* Err(InvalidLength) and Err(InvalidChar).
IsDecodeResult(r) ==
    \/ r.ok /\ r.err = "none" /\ r.val \in [0..127 -> {0, 1}]
    \/ r = Err("InvalidLength")
    \/ r = Err("InvalidChar")

\* C15: for every input, of any length and bytes, decode returns one of Ok(value),
\* Err(InvalidLength) and Err(InvalidChar); every byte value 0..255 is an index
\* within LOOKUP, whose entries are digits 0..31 or NO_VALUE, and no step panics.
C15_DecodeTotal ==
    /\ \A b \in 0..255 : b + 1 \in DOMAIN LOOKUP /\ LOOKUP[b + 1] \in (0..31) \cup {255}
    /\ HasDecoded => IsDecodeResult(decoded)
    /\ pc \in {"upper", "reencoded"} => IsDecodeResult(upper)

\* A 26-byte input that ends in the four-byte character F4 80 80 80, the
\* highest lead byte of UTF-8, has been decoded and rejected.
C15_Witness ==
    /\ pc = "decoded"
    /\ Len(text) = 26
    /\ text[23] = 244
    /\ IsCanonicalText(SubSeq(text, 1, 22) \o <<48, 48, 48, 48>>)
    /\ decoded = Err("InvalidChar")

\* C13: for every 128-bit value v, encode(v) is 26 bytes long, every byte is one
\* of 0123456789ABCDEFGHJKMNPQRSTVWXYZ, and the first is one of '0'..'7'.
C13_EncodedForm ==
    (src = "value" /\ pc # "value") =>
        /\ Len(text) = 26
        /\ \A i \in 1..Len(text) : text[i] \in SpecAlphabet
        /\ text[1] \in 48..55

\* 2^128 - 1 has been encoded: its first character is '7'.
C13_Witness ==
    /\ src = "value"
    /\ pc = "text"
    /\ value = BitsOf(0..127, 128)
    /\ text[1] = 55

---------------------------------------------------------------------------
(* The identifier scenario: an identifier is made from parts and incremented *)
(* until increment returns None.                                            *)

\* How many successful increments a chain is followed for.
MaxIncrements == 3

\* u64 timestamps: 0, 1, the top bit of the time field, the largest time, the
\* first bit beyond it, u64::MAX, and the one of the example in from_parts'
\* documentation (1234567890123456789 = 0x112210F47DE98115).
TimeInputs ==
    {BitsOf({}, 64), BitsOf({0}, 64), BitsOf({47}, 64), BitsOf(0..47, 64),
     BitsOf({48}, 64), BitsOf({0, 48, 63}, 64), BitsOf(0..63, 64),
     FromNibbles(<<1,1,2,2,1,0,15,4,7,13,14,9,8,1,1,5>>)}

MaxRandom == BitsOf(0..79, 128)

\* The random field of "01BX5ZZKBKAZZZZZZZZZZZZZZZ" in test_increment: the digit
\* 'A' (01010) above fifteen 'Z's.
TailAZ == Or(BitsOf({76, 78}, 128), BitsOf(0..74, 128))

\* u128 randoms: small ones, the ones that cross a 5-bit digit or reach the top
\* bit of the field, the last few before the field is saturated, and ones wider
\* than the field.
RandInputs ==
    {BitsOf({}, 128), BitsOf({0}, 128), BitsOf(0..4, 128), BitsOf(0..74, 128), TailAZ,
     BitsOf({79}, 128), BitsOf(0..78, 128),
     BitsOf({80}, 128), BitsOf({0, 80, 127}, 128), BitsOf(0..127, 128),
     BitsOf((0..79) \cup {100}, 128), Val4141}
        \cup {Sub(MaxRandom, FromNat(k, 128)).diff : k \in 0..MaxIncrements}
        \cup {Or(BitsOf({90}, 128), Sub(MaxRandom, FromNat(k, 128)).diff) : k \in 1..MaxIncrements}

UlidInit ==
    /\ pc = "parts"
    /\ tIn \in TimeInputs
    /\ rIn \in RandInputs
    /\ origin = nil
    /\ id = nil
    /\ prev = nil
    /\ last = None
    /\ count = 0

\* ULID::from_parts(tIn, rIn)
FromParts ==
    /\ pc = "parts"
    /\ origin' = from_parts(tIn, rIn)
    /\ id' = from_parts(tIn, rIn)
    /\ pc' = "made"
    /\ UNCHANGED <<tIn, rIn, prev, last, count, codecVars, orderVars, convVars, valueVars>>

\* id.increment(), the caller going on with the identifier it returned
Increment ==
    /\ pc \in {"made", "chain"}
    /\ count < MaxIncrements
    /\ prev' = id
    /\ last' = increment(id)
    /\ IF last'.some
       THEN /\ id' = last'.ulid
            /\ count' = count + 1
            /\ pc' = "chain"
       ELSE /\ UNCHANGED <<id, count>>
            /\ pc' = "exhausted"
    /\ UNCHANGED <<tIn, rIn, origin, codecVars, orderVars, convVars, valueVars>>

InitUlid == UlidInit /\ CodecIdle /\ OrderIdle /\ ConvIdle /\ ValuesIdle

NextUlid == FromParts \/ Increment

SpecUlid == InitUlid /\ [][NextUlid]_vars

---------------------------------------------------------------------------
(* The ordering scenario: two identifiers are made, from parts or from raw  *)
(* 128-bit values, compared, and converted to text; the two texts, or two   *)
(* texts that are given, are parsed.                                        *)

Parts(tm, rnd) == [kind |-> "parts", time |-> tm, rand |-> rnd, raw |-> Zero128]

Raw(v) == [kind |-> "raw", time |-> FromNat(0, 64), rand |-> Zero128, raw |-> v]

\* The identifier is not made but parsed from a text that is given.
GivenText == [kind |-> "text", time |-> FromNat(0, 64), rand |-> Zero128, raw |-> Zero128]

\* The value whose base-32 digit k (0 = last character) is d, all others 0.
DigitAt(k, d) == Shl(FromNat(d, 128), 5 * k)

OrderTimes == {BitsOf({}, 64), BitsOf({0}, 64), BitsOf(0..47, 64), BitsOf({0, 48}, 64)}

OrderRands ==
    {BitsOf({}, 128), BitsOf({79}, 128), BitsOf(0..79, 128), BitsOf({0, 80}, 128),
     BitsOf(0..127, 128)}

\* Raw values: every digit in the last character; and values that differ in
\* the first character, at the boundary of the two fields, or all over.
LastDigitValues == {DigitAt(0, d) : d \in 0..31}

MixedValues ==
    {DigitAt(15, d) : d \in {9, 10, 31}}
        \cup {DigitAt(16, d) : d \in {1, 17}}
        \cup {DigitAt(25, d) : d \in {1, 7}}
        \cup {DigitAt(0, 31), Val4141, Val4d4e, Val0f0f, BitsOf(0..127, 128), BitsOf(0..79, 128)}

\* Texts given in pairs: the samples, samples with one character replaced (the
\* first, whose digit may exceed 7, the second and the last), and a sample in
\* lowercase.
PairTexts ==
    FixtureTexts
        \cup {Overwrite(Text7ZZZ, 1, <<c>>) : c \in {48, 51, 86, 90}}
        \cup {Overwrite(Text2D9R, p, <<c>>) : p \in {2, ULID_LEN}, c \in {48, 49, 72, 74, 90}}
        \cup {LowerAt(Text2D9R, 1..ULID_LEN)}

OrderInit ==
    /\ idA = nil
    /\ idB = nil
    /\ decA = NotRun
    /\ decB = NotRun
    /\ \/ /\ pc = "inputs"
          /\ \/ \E t1 \in OrderTimes, t2 \in OrderTimes, r1 \in OrderRands, r2 \in OrderRands :
                    inA = Parts(t1, r1) /\ inB = Parts(t2, r2)
             \/ \E v1 \in LastDigitValues, v2 \in LastDigitValues :
                    inA = Raw(v1) /\ inB = Raw(v2)
             \/ \E v1 \in MixedValues, v2 \in MixedValues :
                    inA = Raw(v1) /\ inB = Raw(v2)
          /\ strA = NoText
          /\ strB = NoText
       \/ /\ pc = "given"
          /\ inA = GivenText
          /\ inB = GivenText
          /\ strA \in PairTexts
          /\ strB \in PairTexts

\* let a = ULID::from_parts(..); let b = ULID::from_parts(..);
MakeFromParts ==
    /\ pc = "inputs"
    /\ inA.kind = "parts"
    /\ idA' = from_parts(inA.time, inA.rand)
    /\ idB' = from_parts(inB.time, inB.rand)
    /\ pc' = "made2"
    /\ UNCHANGED <<inA, inB, strA, strB, decA, decB, codecVars, ulidVars, convVars, valueVars>>

\* let a = ULID(..); let b = ULID(..);
MakeFromU128 ==
    /\ pc = "inputs"
    /\ inA.kind = "raw"
    /\ idA' = from_u128(inA.raw)
    /\ idB' = from_u128(inB.raw)
    /\ pc' = "made2"
    /\ UNCHANGED <<inA, inB, strA, strB, decA, decB, codecVars, ulidVars, convVars, valueVars>>

\* a.to_string(); b.to_string()
ToStrings ==
    /\ pc = "made2"
    /\ strA' = to_string(idA)
    /\ strB' = to_string(idB)
    /\ pc' = "texts"
    /\ UNCHANGED <<inA, inB, idA, idB, decA, decB, codecVars, ulidVars, convVars, valueVars>>

\* ULID::from_string(&strA); ULID::from_string(&strB)
ParseStrings ==
    /\ pc \in {"texts", "given"}
    /\ decA' = from_string(strA)
    /\ decB' = from_string(strB)
    /\ pc' = "parsed"
    /\ UNCHANGED <<inA, inB, idA, idB, strA, strB, codecVars, ulidVars, convVars, valueVars>>

InitOrder == OrderInit /\ CodecIdle /\ UlidIdle /\ ConvIdle /\ ValuesIdle

NextOrder == MakeFromParts \/ MakeFromU128 \/ ToStrings \/ ParseStrings

SpecOrder == InitOrder /\ [][NextOrder]_vars

---------------------------------------------------------------------------
(* Claims about the identifier, checked under SpecUlid and SpecOrder.       *)

\* The time field (bits 127..80) and the random field (bits 79..0) of u.
TimeBitsOf(u) == [i \in 0..47 |-> u[i + 80]]

RandBitsOf(u) == [i \in 0..79 |-> u[i]]

\* x mod 2^80, and x < 2^80
Mod80(x) == [i \in DOMAIN x |-> IF i < 80 THEN x[i] ELSE 0]

Below80(x) == \A i \in DOMAIN x : i >= 80 => x[i] = 0

\* x < 2^48
Below48(x) == \A i \in DOMAIN x : i >= 48 => x[i] = 0

AllOnes(x) == \A i \in DOMAIN x : x[i] = 1

\* x + 1, wrapping: the lowest 0 bit becomes 1 and the 1 bits below it become 0.
Succ(x) ==
    [i \in DOMAIN x |->
        IF \A k \in 0..(i - 1) : x[k] = 1 THEN 1 - x[i] ELSE x[i]]

\* Bytewise lexicographic s1 < s2.
StrLt(s1, s2) ==
    \/ \E i \in 1..Len(s1) :
          /\ i <= Len(s2)
          /\ s1[i] < s2[i]
          /\ \A j \in 1..(i - 1) : s1[j] = s2[j]
    \/ /\ Len(s1) < Len(s2)
       /\ \A j \in 1..Len(s1) : s1[j] = s2[j]

\* increment has been called once, on from_parts(tIn, rIn).
FirstCall == (pc = "chain" /\ count = 1) \/ (pc = "exhausted" /\ count = 0)

\* C3: if r + 1 < 2^80, from_parts(t, r).increment() is Some(from_parts(t, r + 1)):
\* the time field is kept and random() grows by exactly 1;
\* from_parts(t, 2^80 - 1).increment() is None; and increment returns None only
\* when the random field is all ones.
C3_Increment ==
    /\ (FirstCall /\ Below80(rIn) /\ ~AllOnes(RandBitsOf(rIn)))
          => last = Some(from_parts(tIn, Succ(rIn)), FALSE)
    /\ (pc = "chain")
          => /\ TimeBitsOf(last.ulid) = TimeBitsOf(prev)
             /\ random(last.ulid) = Mod80(Succ(random(prev)))
             /\ Below80(Succ(random(prev)))
    /\ (FirstCall /\ rIn = MaxRandom) => last = None
    /\ (pc \in {"chain", "exhausted"} /\ ~last.some) => AllOnes(RandBitsOf(prev))

\* The increment of 2^79 - 1 has carried through 79 bits of the random field.
C3_Witness ==
    /\ pc = "chain"
    /\ count = 1
    /\ rIn = BitsOf(0..78, 128)
    /\ tIn = BitsOf(0..47, 64)

\* C4: along a chain of increments from u, every identifier returned is strictly
\* greater than the one before and has u's time field, the random field never
\* returns to 0, and the chain ends with None after exactly
\* 2^80 - 1 - u.random() successful increments.
C4_Chain ==
    /\ (pc = "chain")
          => /\ ulid_lt(prev, id)
             /\ TimeBitsOf(id) = TimeBitsOf(origin)
             /\ random(id) # Zero128
             /\ random(id) = Add(random(origin), FromNat(count, 128)).sum
             /\ Below80(Add(random(origin), FromNat(count, 128)).sum)
    /\ (pc = "exhausted")
          => /\ Add(random(origin), FromNat(count, 128)).sum = MaxRandom
             /\ id = Add(origin, FromNat(count, 128)).sum
             /\ ~last.some

\* A chain has ended with None after two successful increments.
C4_Witness == pc = "exhausted" /\ count = 2 /\ tIn = BitsOf(0..47, 64)

\* C16: the addition in increment never overflows: for every identifier u,
\* 2^128 - 1 included, increment returns None or Some(u + 1) with
\* u + 1 <= 2^128 - 1, and for 2^128 - 1 it returns None.
C16_NoOverflow ==
    (pc \in {"chain", "exhausted"}) =>
        /\ ~last.overflow
        /\ last.some => (~AllOnes(prev) /\ last.ulid = Succ(prev))
        /\ AllOnes(prev) => last = None

\* increment has been called on 2^128 - 1, made from the largest time and the
\* largest random.
C16_Witness ==
    /\ pc = "exhausted"
    /\ count = 0
    /\ AllOnes(prev)
    /\ last = None

\* C5: from_parts(t, r) is ((t mod 2^48) * 2^80) + (r mod 2^80): random() is
\* r mod 2^80 and the time field is t mod 2^48.
C5_FromParts ==
    (pc \in {"made", "chain", "exhausted"})
        => /\ origin = [i \in 0..127 |-> IF i < 80 THEN rIn[i] ELSE tIn[i - 80]]
           /\ random(origin) = Mod80(rIn)
           /\ TimeBitsOf(origin) = [i \in 0..47 |-> tIn[i]]

\* An identifier has been made from a time wider than 48 bits and a random
\* wider than 80 bits.
C5_Witness ==
    /\ pc = "made"
    /\ tIn = BitsOf({0, 48, 63}, 64)
    /\ rIn = BitsOf({0, 80, 127}, 128)

\* C6: for times t1 < t2 < 2^48 and any randoms, from_parts(t1, r1) <
\* from_parts(t2, r2); for one time t, from_parts(t, r1) < from_parts(t, r2)
\* exactly when r1 mod 2^80 < r2 mod 2^80.
C6_TimeThenRandom ==
    (pc \in {"made2", "texts"} /\ inA.kind = "parts")
        => /\ (Lt(inA.time, inB.time) /\ Below48(inB.time)) => ulid_lt(idA, idB)
           /\ (inA.time = inB.time)
                 => (ulid_lt(idA, idB) <=> Lt(Mod80(inA.rand), Mod80(inB.rand)))

\* Two identifiers have been made whose times and randoms are in opposite order.
C6_Witness ==
    /\ pc = "made2"
    /\ inA.kind = "parts"
    /\ Lt(inA.time, inB.time)
    /\ Below48(inB.time)
    /\ Lt(Mod80(inB.rand), Mod80(inA.rand))

\* C2: for 128-bit values a < b, ULID(a) < ULID(b) and encode(a) < encode(b)
\* bytewise: the order of the identifiers is the order of their text forms.
C2_OrderMatchesText ==
    (pc = "texts")
        => /\ ulid_lt(idA, idB) <=> StrLt(strA, strB)
           /\ (inA.kind = "raw" /\ Lt(inA.raw, inB.raw))
                 => (ulid_lt(idA, idB) /\ StrLt(strA, strB))

\* Two values whose last digits are 9 and 10 ('9' and 'A') have been compared
\* as identifiers and as text.
C2_Witness ==
    /\ pc = "texts"
    /\ inA = Raw(DigitAt(0, 9))
    /\ inB = Raw(DigitAt(0, 10))
    /\ strA[26] = 57
    /\ strB[26] = 65

---------------------------------------------------------------------------
(* Claims about the codec as a bijection, checked under SpecOrder.          *)

\* A canonical text form: 26 uppercase alphabet symbols, the first of '0'..'7'.
IsUpperCanonical(s) ==
    Len(s) = 26 /\ s[1] \in 48..55 /\ \A i \in 1..Len(s) : s[i] \in SpecAlphabet

\* C12: encode maps distinct values to distinct strings, and two distinct
\* canonical strings both decode, to distinct values.
C12_Bijection ==
    /\ (pc \in {"texts", "parsed"} /\ inA.kind # "text" /\ idA # idB) => strA # strB
    /\ (pc = "parsed" /\ IsUpperCanonical(strA) /\ IsUpperCanonical(strB) /\ strA # strB) =>
           (decA.ok /\ decB.ok /\ decA.val # decB.val)

\* Two given canonical texts that differ in the first character only have been
\* parsed.
C12_Witness ==
    /\ pc = "parsed"
    /\ inA.kind = "text"
    /\ strA = Text7ZZZ
    /\ strB = Overwrite(Text7ZZZ, 1, <<51>>)
    /\ decA.ok

---------------------------------------------------------------------------
(* The conversion scenario: an identifier is made (nil, default, from a     *)
(* u128, from 16 bytes, from two u64 halves or from a text) and converted   *)
(* to each of its other forms, and back.                                    *)

\* "01FKMG6GAG0PJANMWFN84TNXCD"
Text01FK ==
    <<48, 49, 70, 75, 77, 71, 54, 71, 65, 71, 48, 80, 74, 65, 78, 77, 87, 70, 78, 56, 52, 84, 78, 88, 67, 68>>

ConvValues ==
    {BitsOf({p}, 128) : p \in {0, 7, 8, 63, 64, 79, 80, 119, 120, 127}}
        \cup {BitsOf({}, 128), BitsOf(0..127, 128), BitsOf(0..63, 128), BitsOf(64..127, 128),
              Val4141, Val4d4e, Val0f0f}

\* [u8; 16] arrays: all 0, all 255, 1..16, a single top bit, a single low bit,
\* and bytes whose halves differ.
ConvBytes ==
    {[k \in 1..16 |-> 0], [k \in 1..16 |-> 255], [k \in 1..16 |-> k],
     [k \in 1..16 |-> IF k = 1 THEN 128 ELSE 0], [k \in 1..16 |-> IF k = 16 THEN 1 ELSE 0],
     [k \in 1..16 |-> 16 * k - 1], [k \in 1..16 |-> IF k <= 8 THEN 65 ELSE 190]}

ConvHalves ==
    {BitsOf({}, 64), BitsOf({0}, 64), BitsOf({63}, 64), BitsOf(0..63, 64),
     FromNibbles(<<0,1,2,3,4,5,6,7,8,9,10,11,12,13,14,15>>)}

ConvTexts ==
    PairTexts
        \cup {Text01FK}
        \cup {Resize(Text2D9R, n) : n \in WrongLengths}
        \cup {Overwrite(Text2D9R, p, u) : p \in OverwritePositions,
                                         u \in {<<91>>, <<73>>, <<108>>, <<195, 151>>}}

ConvInit ==
    /\ pc = "c_in"
    /\ convId = nil
    /\ parsed = NoParse
    /\ views = NoViews
    /\ \/ convIn = [NoConv EXCEPT !.kind = "nil"]
       \/ convIn = [NoConv EXCEPT !.kind = "default"]
       \/ \E v \in ConvValues : convIn = [NoConv EXCEPT !.kind = "u128", !.raw = v]
       \/ \E b \in ConvBytes, k \in {"bytes", "array"} :
              convIn = [NoConv EXCEPT !.kind = k, !.bytes = b]
       \/ \E m \in ConvHalves, l \in ConvHalves :
              convIn = [NoConv EXCEPT !.kind = "pair", !.msb = m, !.lsb = l]
       \/ \E t \in ConvTexts : convIn = [NoConv EXCEPT !.kind = "text", !.str = t]

\* The identifier has been made: the other variables of the step.
Made(u) ==
    /\ convId' = u
    /\ pc' = "c_id"
    /\ UNCHANGED <<convIn, parsed, views, codecVars, ulidVars, orderVars, valueVars>>

\* ULID::nil()
MakeNil == pc = "c_in" /\ convIn.kind = "nil" /\ Made(nil)

\* ULID::default()
MakeDefault == pc = "c_in" /\ convIn.kind = "default" /\ Made(default)

\* ULID::from(value: u128)
MakeFromInt == pc = "c_in" /\ convIn.kind = "u128" /\ Made(from_u128(convIn.raw))

\* ULID::from_bytes(bytes)
MakeFromBytes == pc = "c_in" /\ convIn.kind = "bytes" /\ Made(from_bytes(convIn.bytes))

\* ULID::from(bytes: [u8; 16])
MakeFromArray == pc = "c_in" /\ convIn.kind = "array" /\ Made(ulid_from_array(convIn.bytes))

\* ULID::from((msb, lsb))
MakeFromPair ==
    pc = "c_in" /\ convIn.kind = "pair" /\ Made(ulid_from_pair(convIn.msb, convIn.lsb))

\* ULID::from_string(str), str.parse::<ULID>() and ULID::try_from(str); the
\* scenario goes on with the identifier when there is one.
ParseText ==
    /\ pc = "c_in"
    /\ convIn.kind = "text"
    /\ parsed' = [from_string |-> from_string(convIn.str),
                  from_str |-> from_str(convIn.str),
                  try_from |-> try_from(convIn.str)]
    /\ LET r == from_string(convIn.str)
       IN  IF r.ok
           THEN convId' = r.val /\ pc' = "c_id"
           ELSE convId' = convId /\ pc' = "c_rejected"
    /\ UNCHANGED <<convIn, views, codecVars, ulidVars, orderVars, valueVars>>

\* convId.is_nil()
IsNil ==
    /\ pc = "c_id"
    /\ views' = [views EXCEPT !.is_nil = is_nil(convId)]
    /\ pc' = "c_nil"
    /\ UNCHANGED <<convIn, convId, parsed, codecVars, ulidVars, orderVars, valueVars>>

\* convId.to_bytes(), <[u8; 16]>::from(convId), and the identifiers made from
\* those bytes
ToBytes ==
    /\ pc = "c_nil"
    /\ views' = [views EXCEPT !.to_bytes = to_bytes(convId),
                              !.array = array_from_ulid(convId),
                              !.from_bytes = from_bytes(to_bytes(convId)),
                              !.from_array = ulid_from_array(array_from_ulid(convId))]
    /\ pc' = "c_bytes"
    /\ UNCHANGED <<convIn, convId, parsed, codecVars, ulidVars, orderVars, valueVars>>

\* <(u64, u64)>::from(convId), and the identifier made from that pair
ToPair ==
    /\ pc = "c_bytes"
    /\ LET uu == pair_from_ulid(convId)
       IN  views' = [views EXCEPT !.pair = uu, !.from_pair = ulid_from_pair(uu[1], uu[2])]
    /\ pc' = "c_pair"
    /\ UNCHANGED <<convIn, convId, parsed, codecVars, ulidVars, orderVars, valueVars>>

\* u128::from(convId), and the identifier made from that integer
ToInt ==
    /\ pc = "c_pair"
    /\ views' = [views EXCEPT !.u128 = u128_from_ulid(convId),
                              !.from_u128 = from_u128(u128_from_ulid(convId))]
    /\ pc' = "c_u128"
    /\ UNCHANGED <<convIn, convId, parsed, codecVars, ulidVars, orderVars, valueVars>>

\* convId.to_string(), format!("{}", convId), String::from(convId) and
\* convId.array_to_str(&mut [0; ULID_LEN])
ToText ==
    /\ pc = "c_u128"
    /\ views' = [views EXCEPT !.to_string = to_string(convId),
                              !.fmt = fmt(convId),
                              !.string = string_from_ulid(convId),
                              !.array_to_str = array_to_str(convId, [i \in 1..ULID_LEN |-> 0])]
    /\ pc' = "c_text"
    /\ UNCHANGED <<convIn, convId, parsed, codecVars, ulidVars, orderVars, valueVars>>

InitConv == ConvInit /\ CodecIdle /\ UlidIdle /\ OrderIdle /\ ValuesIdle

NextConv ==
    \/ MakeNil \/ MakeDefault \/ MakeFromInt \/ MakeFromBytes \/ MakeFromArray
    \/ MakeFromPair \/ ParseText
    \/ IsNil \/ ToBytes \/ ToPair \/ ToInt \/ ToText

SpecConv == InitConv /\ [][NextConv]_vars

---------------------------------------------------------------------------
(* Claims about the conversions, checked under SpecConv.                    *)

\* The integer value of u is 0.
IsZero(u) == DOMAIN u = 0..127 /\ \A j \in 0..127 : u[j] = 0

\* Bit b of the number n.
BitOfNat(n, b) == (n \div Pow2(b)) % 2

HasId == pc \in {"c_id", "c_nil", "c_bytes", "c_pair", "c_u128", "c_text"}

HasNil == pc \in {"c_nil", "c_bytes", "c_pair", "c_u128", "c_text"}

HasBytes == pc \in {"c_bytes", "c_pair", "c_u128", "c_text"}

HasPair == pc \in {"c_pair", "c_u128", "c_text"}

HasInt == pc \in {"c_u128", "c_text"}

\* C17: nil() has the integer value 0 and the text form of 26 '0' characters,
\* default() equals nil(), and is_nil() is true exactly of the value 0.
C17_Nil ==
    /\ (HasId /\ convIn.kind = "nil") => IsZero(convId)
    /\ (HasId /\ convIn.kind = "default") => convId = nil
    /\ (pc = "c_text" /\ convIn.kind = "nil") => views.to_string = [i \in 1..26 |-> 48]
    /\ HasNil => (views.is_nil <=> IsZero(convId))

\* nil() has been made, found nil and converted to text.
C17_Witness == pc = "c_text" /\ convIn.kind = "nil" /\ views.is_nil

\* C18: to_bytes() is the 16 bytes of the value in big-endian order (byte 0
\* holds bits 127..120), from_bytes(u.to_bytes()) = u for every identifier u and
\* from_bytes(b).to_bytes() = b for every 16-byte array b; the From conversions
\* do the same.
C18_Bytes ==
    HasBytes =>
        /\ Len(views.to_bytes) = 16
        /\ \A k \in 1..16 :
              /\ views.to_bytes[k] \in 0..255
              /\ \A b \in 0..7 : BitOfNat(views.to_bytes[k], b) = convId[8 * (16 - k) + b]
        /\ views.array = views.to_bytes
        /\ views.from_bytes = convId
        /\ views.from_array = convId
        /\ convIn.kind \in {"bytes", "array"} => views.to_bytes = convIn.bytes

\* The identifier made by from_bytes of the bytes 1, 2, .., 16 has been
\* converted to bytes.
C18_Witness ==
    /\ pc = "c_bytes"
    /\ convIn.kind = "bytes"
    /\ convIn.bytes = [k \in 1..16 |-> k]
    /\ views.to_bytes[1] = 1

\* C19: the pair of an identifier is (value div 2^64, value mod 2^64), the
\* identifier of a pair (msb, lsb) is msb * 2^64 + lsb, both round trips are the
\* identity, and so is the conversion to and from a u128, which masks nothing.
C19_HalvesAndInt ==
    /\ HasPair =>
          /\ views.pair[1] = [i \in 0..63 |-> convId[i + 64]]
          /\ views.pair[2] = [i \in 0..63 |-> convId[i]]
          /\ views.from_pair = convId
    /\ (HasId /\ convIn.kind = "pair") =>
          convId = [j \in 0..127 |-> IF j >= 64 THEN convIn.msb[j - 64] ELSE convIn.lsb[j]]
    /\ (HasPair /\ convIn.kind = "pair") => views.pair = <<convIn.msb, convIn.lsb>>
    /\ HasInt => (views.u128 = convId /\ views.from_u128 = convId)
    /\ (HasId /\ convIn.kind = "u128") => convId = convIn.raw

\* The identifier of the pair (0x0123456789ABCDEF, 2^63) has been converted to
\* a pair and to a u128.
C19_Witness ==
    /\ pc = "c_u128"
    /\ convIn.kind = "pair"
    /\ convIn.msb = FromNibbles(<<0,1,2,3,4,5,6,7,8,9,10,11,12,13,14,15>>)
    /\ convIn.lsb = BitsOf({63}, 64)

\* C20: from_string, from_str and try_from return Ok(ULID(v)) exactly when decode
\* returns Ok(v), and decode's error unchanged otherwise; to_string, Display,
\* String::from and array_to_str all give encode(value).
C20_TextEntryPoints ==
    /\ (convIn.kind = "text" /\ pc # "c_in") =>
          /\ parsed.from_string = decode(convIn.str)
          /\ parsed.from_str = decode(convIn.str)
          /\ parsed.try_from = decode(convIn.str)
          /\ pc = "c_rejected" <=> ~decode(convIn.str).ok
    /\ (pc = "c_text") =>
          /\ views.to_string = encode(convId)
          /\ views.fmt = encode(convId)
          /\ views.string = encode(convId)
          /\ views.array_to_str = encode(convId)

\* "01FKMG6GAG0PJANMWFN84TNXCD" has been parsed and the identifier converted to
\* text again.
C20_Witness ==
    /\ pc = "c_text"
    /\ convIn.kind = "text"
    /\ convIn.str = Text01FK
    /\ views.fmt = Text01FK

---------------------------------------------------------------------------
(* values/datetime/utc_timestamp.rs                                         *)

\* u64::MAX and u128::MAX
U64_MAX == BitsOf(0..63, 64)

U128_MAX == BitsOf(0..127, 128)

\* x * y for the bits lo..hi of y: the sum of x << i over the set bits i, and
\* whether a shift or a sum lost a bit of the product.
RECURSIVE MulBits(_, _, _, _)
MulBits(x, y, lo, hi) ==
    IF \A i \in lo..hi : y[i] = 0
    THEN [sum |-> [i \in DOMAIN x |-> 0], overflow |-> FALSE]
    ELSE IF lo = hi
    THEN [sum |-> Stored(Shl(x, lo)),
          overflow |-> \E j \in DOMAIN x : j + lo \notin DOMAIN x /\ x[j] = 1]
    ELSE LET mid == (lo + hi) \div 2
             low == MulBits(x, y, lo, mid)
             high == MulBits(x, y, mid + 1, hi)
             both == Add(low.sum, high.sum)
         IN  [sum |-> Stored(both.sum),
              overflow |-> low.overflow \/ high.overflow \/ both.overflow]

\* x.saturating_mul(y): the product, or the largest value of the type when the
\* product does not fit.
saturating_mul(x, y) ==
    LET product == MulBits(x, y, 0, Width(x) - 1)
    IN  IF product.overflow THEN [i \in DOMAIN x |-> 1] ELSE product.sum

\* x / d for a divisor d < 2^30, by long division over the bits lo..hi of x
\* from the top: rem is the remainder brought in from the bits above, quot the
\* positions of the set bits of the quotient.
RECURSIVE DivBits(_, _, _, _, _)
DivBits(x, d, lo, hi, rem) ==
    IF rem \in Nat /\ lo = hi
    THEN LET acc == 2 * rem + x[lo]
         IN  IF acc >= d THEN [rem |-> acc - d, quot |-> {lo}]
                         ELSE [rem |-> acc, quot |-> {}]
    ELSE LET mid == (lo + hi) \div 2
             high == DivBits(x, d, mid + 1, hi, rem)
             low == DivBits(x, d, lo, mid, high.rem)
         IN  [rem |-> low.rem, quot |-> high.quot \cup low.quot]

Div(x, d) == Stored(BitsOf(DivBits(x, d, 0, Width(x) - 1, 0).quot, Width(x)))

\* UTCTimestamp::builder()
UTCTimestamp_builder == UTCTimestampBuilder_default

\* UTCTimestamp::as_nano(&self)
as_nano(self) == self.timestamp

\* as_milli without the cap: the cast wraps.
as_milli_wrapping(self) == Cast(Div(self.timestamp, 1000000), 64)

\* UTCTimestamp::as_milli(&self)
as_milli(self) ==
    LET millis == Div(self.timestamp, 1000000)
    IN  IF Lt(Cast(U64_MAX, 128), millis) THEN U64_MAX ELSE Cast(millis, 64)

\* UTCTimestamp::as_sec(&self)
as_sec(self) == Cast(Div(self.timestamp, 1000000000), 64)

\* use_ms multiplying in u64, before the widening.
use_ms_in_u64(self, timestamp) ==
    [self EXCEPT !.timestamp =
        Just(Cast(saturating_mul(timestamp, FromNat(1000000, 64)), 128))]

\* UTCTimestampBuilder::use_ms(self, timestamp: u64)
use_ms(self, timestamp) ==
    LET nanos == saturating_mul(Cast(timestamp, 128), FromNat(1000000, 128))
    IN  [self EXCEPT !.timestamp = Just(nanos)]

\* use_ns keeping a value already set: the first setter wins.
use_ns_first_wins(self, timestamp) ==
    IF self.timestamp.some THEN self ELSE [self EXCEPT !.timestamp = Just(timestamp)]

\* UTCTimestampBuilder::use_ns(self, timestamp: u128)
use_ns(self, timestamp) == [self EXCEPT !.timestamp = Just(timestamp)]

\* validate_value(value: Option<u128>) of utc_timestamp.rs
UTCTimestamp_validate_value(v) ==
    IF v.some
    THEN Success([timestamp |-> v.value])
    ELSE Failure(for_system("InvalidInput",
                 Message("A value was not provided for the UTCTimestamp, please provide a valid UTCTimestamp value.", <<>>)),
                 NoTimestamp)

\* UTCTimestampBuilder::build(self)
UTCTimestampBuilder_build(self) == UTCTimestamp_validate_value(self.timestamp)

---------------------------------------------------------------------------
(* The timestamp scenario: setters are called on a new builder, build() is  *)
(* called, and the three views of the value are taken.                      *)

MaxSetterCalls == 2

\* u64 milliseconds: 0, 1, around a second, the value of the tests, the two
\* around 2^64 / 10^6, the top bit, u64::MAX - 1 and u64::MAX.
MsInputs ==
    {FromNat(0, 64), FromNat(1, 64), FromNat(999, 64), FromNat(1000, 64),
     FromNat(1234567, 64),
     FromNibbles(<<0,0,0,0,1,0,12,6,15,7,10,0,11,5,14,13>>),
     FromNibbles(<<0,0,0,0,1,0,12,6,15,7,10,0,11,5,14,14>>),
     BitsOf({63}, 64), BitsOf(1..63, 64), U64_MAX}

\* u128 nanoseconds: 0, the ones around a millisecond and a second, the values
\* of the tests (999_999, 1_500_000, 1_234_567_890, 2^63 - 1, 2^64 * 10^6,
\* 2^64 * 10^9) with their neighbours (u64::MAX * 10^6, u64::MAX * 10^6 +
\* 999_999, 2^64 * 10^9 - 1, 2^64 * 10^9 + 10^9 + 5), 3 * 2^64 * 10^9 +
\* 123_456_789, and u128::MAX.
NsInputs ==
    {FromNat(0, 128), FromNat(999999, 128), FromNat(1000000, 128), FromNat(1500000, 128),
     FromNat(999999999, 128), FromNat(1000000000, 128), FromNat(1234567890, 128),
     FromNibbles(<<0,0,0,0,0,0,0,0,0,0,0,0,0,0,0,0,7,15,15,15,15,15,15,15,15,15,15,15,15,15,15,15>>),
     FromNibbles(<<0,0,0,0,0,0,0,0,0,0,0,15,4,2,3,15,15,15,15,15,15,15,15,15,15,15,15,0,11,13,12,0>>),
     FromNibbles(<<0,0,0,0,0,0,0,0,0,0,0,15,4,2,3,15,15,15,15,15,15,15,15,15,15,15,15,15,15,15,15,15>>),
     FromNibbles(<<0,0,0,0,0,0,0,0,0,0,0,15,4,2,4,0,0,0,0,0,0,0,0,0,0,0,0,0,0,0,0,0>>),
     FromNibbles(<<0,0,0,0,0,0,0,0,3,11,9,10,12,9,15,15,15,15,15,15,15,15,15,15,15,15,15,15,15,15,15,15>>),
     FromNibbles(<<0,0,0,0,0,0,0,0,3,11,9,10,12,10,0,0,0,0,0,0,0,0,0,0,0,0,0,0,0,0,0,0>>),
     FromNibbles(<<0,0,0,0,0,0,0,0,3,11,9,10,12,10,0,0,0,0,0,0,0,0,0,0,3,11,9,10,12,10,0,5>>),
     FromNibbles(<<0,0,0,0,0,0,0,0,11,2,13,0,5,14,0,0,0,0,0,0,0,0,0,0,0,7,5,11,12,13,1,5>>),
     U128_MAX}

TsInit ==
    /\ pc = "ts_new"
    /\ tsBuilder = UTCTimestamp_builder
    /\ tsLast = NoCall
    /\ tsCount = 0
    /\ tsBuilt = NotBuilt(NoTimestamp)
    /\ tsViews = NoTsViews

\* The setter op has been called with the argument held by call.
Called(op, call) ==
    /\ tsLast' = [call EXCEPT !.op = op, !.before = tsLast.op]
    /\ tsCount' = tsCount + 1
    /\ UNCHANGED <<pc, tsBuilt, tsViews, identifierVars, dtVars, fnVars, rlVars>>

\* builder.use_ms(ms)
UseMs ==
    /\ pc = "ts_new"
    /\ tsCount < MaxSetterCalls
    /\ \E ms \in MsInputs :
          /\ tsBuilder' = use_ms(tsBuilder, ms)
          /\ Called("use_ms", [NoCall EXCEPT !.ms = ms])

\* builder.use_ns(ns)
UseNs ==
    /\ pc = "ts_new"
    /\ tsCount < MaxSetterCalls
    /\ \E ns \in NsInputs :
          /\ tsBuilder' = use_ns(tsBuilder, ns)
          /\ Called("use_ns", [NoCall EXCEPT !.ns = ns])

\* builder.build(), which consumes the builder
TsBuild ==
    /\ pc = "ts_new"
    /\ LET built == UTCTimestampBuilder_build(tsBuilder)
       IN  /\ tsBuilt' = built
           /\ pc' = IF built.ok THEN "ts_built" ELSE "ts_failed"
    /\ UNCHANGED <<tsBuilder, tsLast, tsCount, tsViews, identifierVars, dtVars, fnVars, rlVars>>

\* as_nano(), as_milli() and as_sec() of the value build() returned
TsViews ==
    /\ pc = "ts_built"
    /\ tsViews' = [as_nano |-> as_nano(tsBuilt.val),
                   as_milli |-> as_milli(tsBuilt.val),
                   as_sec |-> as_sec(tsBuilt.val)]
    /\ pc' = "ts_views"
    /\ UNCHANGED <<tsBuilder, tsLast, tsCount, tsBuilt, identifierVars, dtVars, fnVars, rlVars>>

InitTs == TsInit /\ IdentifiersIdle /\ DtIdle /\ FnIdle /\ RlIdle

NextTs == UseMs \/ UseNs \/ TsBuild \/ TsViews

SpecTs == InitTs /\ [][NextTs]_vars

---------------------------------------------------------------------------
(* Claims about UTCTimestamp, checked under SpecTs.                         *)

\* 10 * x, and whether a bit of it was lost.
Times10(x) ==
    LET five == Add(Shl(x, 2), x)
    IN  [sum |-> Stored(Shl(five.sum, 1)),
         overflow |-> five.overflow \/ x[127] = 1 \/ x[126] = 1 \/ five.sum[127] = 1]

\* 10^k * x, and whether a bit of it was lost.
RECURSIVE TimesPow10(_, _)
TimesPow10(x, k) ==
    IF k = 0 THEN [sum |-> Stored(x), overflow |-> FALSE]
    ELSE LET below == TimesPow10(x, k - 1)
             this == Times10(below.sum)
         IN  [sum |-> this.sum, overflow |-> below.overflow \/ this.overflow]

\* q = floor(x / 10^k), for u128 q and x: q * 10^k <= x < q * 10^k + 10^k.
IsFloorDiv(q, x, k) ==
    LET product == TimesPow10(q, k)
    IN  /\ ~product.overflow
        /\ ~Lt(x, product.sum)
        /\ Lt(Sub(x, product.sum).diff, FromNat(10 ^ k, 128))

\* floor(x / 10^k) >= q, for u128 q and x: q * 10^k <= x.
IsAtLeastFloorDiv(q, x, k) ==
    LET product == TimesPow10(q, k)
    IN  ~product.overflow /\ ~Lt(x, product.sum)

\* floor(ns / 10^9) / 2^64 for the nanoseconds of NsInputs: the bits of the
\* seconds that the cast to u64 drops (0x44B82FA09 for u128::MAX).
HighParts ==
    {FromNat(0, 128), FromNat(1, 128), FromNat(3, 128),
     Cast(FromNibbles(<<4,4,11,8,2,15,10,0,9>>), 128)}

\* C21: for every u64 ms, the value built after use_ms(ms) has as_nano() =
\* ms * 1_000_000 exactly (the product is never the saturated one),
\* as_milli() = ms and as_sec() = floor(ms / 1000).
C21_FromMillis ==
    (pc = "ts_views" /\ tsLast.op = "use_ms") =>
        LET exact == TimesPow10(Cast(tsLast.ms, 128), 6)
        IN  /\ ~exact.overflow
            /\ tsViews.as_nano = exact.sum
            /\ tsViews.as_milli = tsLast.ms
            /\ IsFloorDiv(Cast(tsViews.as_sec, 128), Cast(tsLast.ms, 128), 3)

\* The views were taken of the value built from u64::MAX milliseconds.
C21_Witness ==
    pc = "ts_views" /\ tsLast.op = "use_ms" /\ tsLast.ms = U64_MAX
        /\ tsViews.as_milli = U64_MAX

\* C22: for every u128 ns, the value built after use_ns(ns) has as_nano() = ns,
\* as_milli() = min(floor(ns / 10^6), 2^64 - 1) and as_sec() = floor(ns / 10^9)
\* mod 2^64; neither view rounds up.
C22_FromNanos ==
    (pc = "ts_views" /\ tsLast.op = "use_ns") =>
        LET millis == Cast(tsViews.as_milli, 128)
        IN  /\ tsViews.as_nano = tsLast.ns
            /\ IF tsViews.as_milli = U64_MAX
               THEN IsAtLeastFloorDiv(millis, tsLast.ns, 6)
               ELSE IsFloorDiv(millis, tsLast.ns, 6)
            /\ \E high \in HighParts :
                  IsFloorDiv(Or(Shl(high, 64), Cast(tsViews.as_sec, 128)), tsLast.ns, 9)

\* The views were taken of 2^64 * 10^9 nanoseconds: the milliseconds are capped
\* and the seconds wrap to 0.
C22_Witness ==
    /\ pc = "ts_views"
    /\ tsLast.op = "use_ns"
    /\ tsLast.ns = Shl(FromNat(1000000000, 128), 64)
    /\ tsViews.as_milli = U64_MAX
    /\ tsViews.as_sec = Zero64

\* C23: after one or more use_ms and use_ns calls in any order, build() returns
\* Ok with the nanoseconds of the last call only: ms * 10^6 after use_ms(ms), ns
\* after use_ns(ns).
C23_LastSetterWins ==
    /\ pc = "ts_failed" => tsCount = 0
    /\ (pc \in {"ts_built", "ts_views"} /\ tsCount > 0) =>
          /\ tsBuilt.ok
          /\ tsBuilt.val.timestamp =
                IF tsLast.op = "use_ms" THEN TimesPow10(Cast(tsLast.ms, 128), 6).sum
                                        ELSE tsLast.ns

\* build() was called after use_ms and then use_ns with another value.
C23_Witness ==
    /\ pc = "ts_built"
    /\ tsCount = 2
    /\ tsLast.before = "use_ms"
    /\ tsLast.op = "use_ns"
    /\ tsBuilt.val.timestamp = FromNat(1234567890, 128)

\* C24: build() without a use_ns or use_ms call before it returns Err with
\* Kind::InvalidInput, the system audience and the message `A value was not
\* provided for the DateTime, please provide a valid DateTime value.`
C24_MissingValueError ==
    (pc = "ts_failed" /\ tsCount = 0) =>
        /\ ~tsBuilt.ok
        /\ tsBuilt.error.kind = "InvalidInput"
        /\ tsBuilt.error.audience = "System"
        /\ tsBuilt.error.message =
              Message("A value was not provided for the DateTime, please provide a valid DateTime value.", <<>>)

---------------------------------------------------------------------------
(* values/datetime.rs                                                       *)

\* DateTime::builder()
DateTime_builder == DateTimeBuilder_default

\* DateTimeBuilder::now(self)
DateTimeBuilder_now(self) == [self EXCEPT !.now = TRUE]

\* DateTimeBuilder::set_at(self, millis: u64)
set_at(self, millis) == [self EXCEPT !.value = Just(millis)]

\* generate_now() of a target that is not wasm32.  clock is what
\* SystemTime::now() read: a time before UNIX_EPOCH, for which duration_since
\* returns an error, or the u128 milliseconds of the duration since UNIX_EPOCH.
generate_now(clock) ==
    IF clock.before_epoch
    THEN Failure(for_system("Unexpected",
                 Message("Failed to generate the DateTime for now. {}",
                         <<"second time provided was later than self">>)),
                 Zero64)
    ELSE Success(Cast(clock.millis, 64))

\* validate_value(value: Option<u64>) of datetime.rs
DateTime_validate_value(v) ==
    IF v.some
    THEN Success(v.value)
    ELSE Failure(for_system("InvalidInput",
                 Message("A value was not provided for the DateTime, please provide a valid DateTime value.", <<>>)),
                 Zero64)

\* build preferring a value that was set to the clock.
DateTimeBuilder_build_value_first(self, clock) ==
    LET valid_time == IF self.value.some THEN DateTime_validate_value(self.value)
                                         ELSE generate_now(clock)
    IN  IF valid_time.ok THEN Success([value |-> valid_time.val])
                         ELSE Failure(valid_time.error, NoDateTime)

\* DateTimeBuilder::build(self): each ? returns the Err of its operand.
DateTimeBuilder_build(self, clock) ==
    LET valid_time == IF self.now THEN generate_now(clock)
                                  ELSE DateTime_validate_value(self.value)
    IN  IF valid_time.ok THEN Success([value |-> valid_time.val])
                         ELSE Failure(valid_time.error, NoDateTime)

---------------------------------------------------------------------------
(* The date-time scenario: now() and set_at() are called on a new builder   *)
(* in any order, then build() is called and reads the clock.                *)

\* u64 milliseconds handed to set_at: 0, 1, the value of the tests, u64::MAX.
SetAtInputs == {Zero64, FromNat(1, 64), FromNat(1234567890, 64), U64_MAX}

\* What the clock reads: a time before the epoch, the epoch, the value that the
\* tests hand to set_at, 1_700_000_000_000 ms (a day of 2023), and 2^64 + 5 ms.
ClockReadings ==
    {[before_epoch |-> TRUE, millis |-> Zero128],
     [before_epoch |-> FALSE, millis |-> Zero128],
     [before_epoch |-> FALSE, millis |-> FromNat(1234567890, 128)],
     [before_epoch |-> FALSE, millis |-> Cast(FromNibbles(<<1,8,11,12,15,14,5,6,8,0,0>>), 128)],
     [before_epoch |-> FALSE, millis |-> BitsOf({0, 2, 64}, 128)]}

DtInit ==
    /\ pc = "dt_new"
    /\ dtBuilder = DateTime_builder
    /\ dtCalls = <<>>
    /\ dtClock = NoClock
    /\ dtBuilt = NotBuilt(NoDateTime)

\* builder.now()
DtNow ==
    /\ pc = "dt_new"
    /\ Len(dtCalls) < MaxSetterCalls
    /\ dtBuilder' = DateTimeBuilder_now(dtBuilder)
    /\ dtCalls' = Append(dtCalls, [op |-> "now", millis |-> Zero64])
    /\ UNCHANGED <<pc, dtClock, dtBuilt, identifierVars, tsVars, fnVars, rlVars>>

\* builder.set_at(millis)
DtSetAt ==
    /\ pc = "dt_new"
    /\ Len(dtCalls) < MaxSetterCalls
    /\ \E millis \in SetAtInputs :
          /\ dtBuilder' = set_at(dtBuilder, millis)
          /\ dtCalls' = Append(dtCalls, [op |-> "set_at", millis |-> millis])
    /\ UNCHANGED <<pc, dtClock, dtBuilt, identifierVars, tsVars, fnVars, rlVars>>

\* builder.build(), with the clock reading what it reads at that time
DtBuild ==
    /\ pc = "dt_new"
    /\ \E clock \in ClockReadings :
          /\ dtClock' = clock
          /\ dtBuilt' = DateTimeBuilder_build(dtBuilder, clock)
    /\ pc' = "dt_built"
    /\ UNCHANGED <<dtBuilder, dtCalls, identifierVars, tsVars, fnVars, rlVars>>

InitDt == DtInit /\ IdentifiersIdle /\ TsIdle /\ FnIdle /\ RlIdle

NextDt == DtNow \/ DtSetAt \/ DtBuild

SpecDt == InitDt /\ [][NextDt]_vars

---------------------------------------------------------------------------
(* Claims about DateTime, checked under SpecDt.                             *)

NowCalled == \E k \in 1..Len(dtCalls) : dtCalls[k].op = "now"

SetAtCalled == \E k \in 1..Len(dtCalls) : dtCalls[k].op = "set_at"

\* The argument of the last set_at call.
LastSetAt ==
    LET k == CHOOSE j \in 1..Len(dtCalls) :
                 /\ dtCalls[j].op = "set_at"
                 /\ \A i \in (j + 1)..Len(dtCalls) : dtCalls[i].op # "set_at"
    IN  dtCalls[k].millis

\* build() returned what it returns when now() was not called: the last
\* set_at, or the error of a missing value.
WithoutNow ==
    IF SetAtCalled
    THEN dtBuilt.ok /\ dtBuilt.val.value = LastSetAt
    ELSE /\ ~dtBuilt.ok
         /\ dtBuilt.error.kind = "InvalidInput"
         /\ dtBuilt.error.audience = "System"
         /\ dtBuilt.error.message =
               Message("A value was not provided for the DateTime, please provide a valid DateTime value.", <<>>)

---------------------------------------------------------------------------
(* values/file_system/file_name.rs                                          *)

\* char::is_whitespace: the chars with the Unicode property White_Space.
is_whitespace(c) ==
    c \in (9..13) \cup {32, 133, 160, 5760} \cup (8192..8202)
              \cup {8232, 8233, 8239, 8287, 12288}

\* char::is_alphanumeric for the chars below U+0100: the letters and digits of
\* ASCII, and the letters and numbers of Latin-1.
is_alphanumeric(c) ==
    c \in (48..57) \cup (65..90) \cup (97..122)
              \cup {170, 178, 179, 181, 185, 186, 188, 189, 190}
              \cup (192..214) \cup (216..246) \cup (248..255)

\* The test of validate_name made with char::is_alphanumeric, which lets the
\* letters and numbers beyond ASCII through.
is_alphanumeric_of_any_script(c) == is_alphanumeric(c)

\* char::is_ascii_alphanumeric
is_ascii_alphanumeric(c) == c \in (48..57) \cup (65..90) \cup (97..122)

\* str::trim_start, str::trim_end and str::trim
RECURSIVE trim_start(_)
trim_start(s) ==
    IF s # <<>> /\ is_whitespace(Head(s)) THEN trim_start(Tail(s)) ELSE s

RECURSIVE trim_end(_)
trim_end(s) ==
    IF s # <<>> /\ is_whitespace(s[Len(s)]) THEN trim_end(SubSeq(s, 1, Len(s) - 1)) ELSE s

trim(s) == trim_end(trim_start(s))

\* FileName::builder()
FileName_builder == FileNameBuilder_default

\* FileName::value(&self)
FileName_value(self) == self.value

\* FileNameBuilder::value(self, value: &str)
FileNameBuilder_value(self, v) == [self EXCEPT !.value = Just(v)]

\* invalid_input(message)
invalid_input(message) == for_system("InvalidInput", Message(message, <<>>))

\* validate_name(value: Option<String>); unwrap_or_default gives "" for None.
validate_name(v) ==
    LET name == trim(IF v.some THEN v.value ELSE <<>>)
    IN  IF name = <<>>
        THEN Failure(invalid_input("The file name cannot be empty."), <<>>)
        ELSE IF name = <<46>> \/ name = <<46, 46>>
        THEN Failure(invalid_input("The file name cannot be '.' or '..'."), <<>>)
        ELSE IF /\ ~is_ascii_alphanumeric(name[1])
                /\ name[1] # 45
                /\ name[1] # 46
                /\ name[1] # 95
        THEN Failure(invalid_input("The file name must start with a letter, number, '-', '.', or '_'."), <<>>)
        ELSE IF ~(\A k \in 1..Len(name) :
                     is_ascii_alphanumeric(name[k]) \/ name[k] = 46 \/ name[k] = 95 \/ name[k] = 45)
        THEN Failure(invalid_input("The file name can only contain alphanumeric characters, '.', '_', or '-'."), <<>>)
        ELSE Success(name)

\* FileNameBuilder::build(self)
FileNameBuilder_build(self) ==
    LET valid_name == validate_name(self.value)
    IN  IF valid_name.ok THEN Success([value |-> valid_name.val])
                         ELSE Failure(valid_name.error, NoFileName)

---------------------------------------------------------------------------
(* The file-name scenario: a name is handed to a new builder, or none is,   *)
(* and build() is called.                                                   *)

MaxNameLen == 3

\* The chars of the names: ' ', U+00A0 (a space that is not ASCII), '.', '_',
\* '-', 'a', 'Z', '9', '+' and U+00E9 (a letter that is not ASCII).
NameChars == {32, 160, 46, 95, 45, 97, 90, 57, 43, 233}

\* Every name of up to MaxNameLen of these chars.
NameInputs == UNION {[1..len -> NameChars] : len \in 0..MaxNameLen}

FnInit ==
    /\ pc = "fn_new"
    /\ fnBuilder = FileName_builder
    /\ fnBuilt = NotBuilt(NoFileName)

\* builder.value(name)
FnValue ==
    /\ pc = "fn_new"
    /\ \E name \in NameInputs : fnBuilder' = FileNameBuilder_value(fnBuilder, name)
    /\ pc' = "fn_set"
    /\ UNCHANGED <<fnBuilt, identifierVars, tsVars, dtVars, rlVars>>

\* builder.build()
FnBuild ==
    /\ pc \in {"fn_new", "fn_set"}
    /\ fnBuilt' = FileNameBuilder_build(fnBuilder)
    /\ pc' = "fn_built"
    /\ UNCHANGED <<fnBuilder, identifierVars, tsVars, dtVars, rlVars>>

InitFn == FnInit /\ IdentifiersIdle /\ TsIdle /\ DtIdle /\ RlIdle

NextFn == FnValue \/ FnBuild

SpecFn == InitFn /\ [][NextFn]_vars

---------------------------------------------------------------------------
(* Claims about FileName, checked under SpecFn.                             *)

\* White space, and the chars a file name is made of: the letters and digits
\* of ASCII, '.', '_' and '-'.
SpecWhiteSpace ==
    (9..13) \cup {32, 133, 160, 5760} \cup (8192..8202) \cup {8232, 8233, 8239, 8287, 12288}

SpecNameChars == (48..57) \cup (65..90) \cup (97..122) \cup {46, 95, 45}

\* s without the white space before its first and after its last char that is
\* not white space.
SpecTrimmed(s) ==
    LET keep == {k \in 1..Len(s) : s[k] \notin SpecWhiteSpace}
    IN  IF keep = {} THEN <<>>
        ELSE LET first == CHOOSE k \in keep : \A j \in keep : k <= j
                 final == CHOOSE k \in keep : \A j \in keep : j <= k
             IN  [k \in 1..(final - first + 1) |-> s[first + k - 1]]

\* The name handed to the builder, "" when none was.
NameGiven == IF fnBuilder.value.some THEN fnBuilder.value.value ELSE <<>>

\* C26: build() succeeds if and only if the trimmed input is not empty, is not
\* '.' or '..' and is made only of ASCII letters, digits, '.', '_' and '-', and
\* value() is then the trimmed input; a failure is InvalidInput for the system
\* audience, with the message of the first check that fails in the order:
\* empty (also when no value was set), '.' or '..', first char, later chars.
C26_FileName ==
    pc = "fn_built" =>
        LET name == SpecTrimmed(NameGiven)
            dots == name = <<46>> \/ name = <<46, 46>>
            valid == name # <<>> /\ ~dots /\ \A k \in 1..Len(name) : name[k] \in SpecNameChars
        IN  /\ fnBuilt.ok <=> valid
            /\ fnBuilt.ok => FileName_value(fnBuilt.val) = name
            /\ ~fnBuilt.ok =>
                  /\ fnBuilt.error.kind = "InvalidInput"
                  /\ fnBuilt.error.audience = "System"
                  /\ fnBuilt.error.message.literal =
                        IF name = <<>> THEN "The file name cannot be empty."
                        ELSE IF dots THEN "The file name cannot be '.' or '..'."
                        ELSE IF name[1] \notin SpecNameChars
                        THEN "The file name must start with a letter, number, '-', '.', or '_'."
                        ELSE "The file name can only contain alphanumeric characters, '.', '_', or '-'."

\* " a " was built into the file name "a".
C26_Witness ==
    /\ pc = "fn_built"
    /\ NameGiven = <<32, 97, 160>>
    /\ fnBuilt.ok
    /\ fnBuilt.val.value = <<97>>

---------------------------------------------------------------------------
(* values/specification/repository_link.rs                                  *)

\* "://"
SchemeSeparator == <<58, 47, 47>>

\* s.contains(pat) and the place of the first pat in s
contains(s, pat) ==
    \E i \in 1..(Len(s) - Len(pat) + 1) : SubSeq(s, i, i + Len(pat) - 1) = pat

find(s, pat) ==
    CHOOSE i \in 1..(Len(s) - Len(pat) + 1) :
        /\ SubSeq(s, i, i + Len(pat) - 1) = pat
        /\ \A j \in 1..(i - 1) : SubSeq(s, j, j + Len(pat) - 1) # pat

\* s.split(pat).collect(): the texts between the pats, found from the left.
RECURSIVE split(_, _)
split(s, pat) ==
    IF ~contains(s, pat) THEN <<s>>
    ELSE <<SubSeq(s, 1, find(s, pat) - 1)>>
             \o split(SubSeq(s, find(s, pat) + Len(pat), Len(s)), pat)

\* vec.contains(&x)
vec_contains(vec, x) == \E k \in 1..Len(vec) : vec[k] = x

\* format!("{:?}", vec) of a Vec<String> whose chars need no escape:
\* ["file", "git"]
RECURSIVE debug_items(_)
debug_items(vec) ==
    IF vec = <<>> THEN <<>>
    ELSE <<34>> \o Head(vec) \o <<34>>
             \o (IF Len(vec) > 1 THEN <<44, 32>> ELSE <<>>) \o debug_items(Tail(vec))

debug(vec) == <<91>> \o debug_items(vec) \o <<93>>

\* RepositoryLink::builder()
RepositoryLink_builder == RepositoryLinkBuilder_default

\* RepositoryLink::fmt: the text of the url
RepositoryLink_fmt(self) == self.url.value

\* RepositoryLinkBuilder::allowed_schema, default_scheme and repo_link
allowed_schema(self, schema) == [self EXCEPT !.allowed_schema = schema]

default_scheme(self, scheme) == [self EXCEPT !.default_scheme = Just(scheme)]

repo_link(self, link) == [self EXCEPT !.repo_link = Just(link)]

\* verify_allowed_schema(&self)
verify_allowed_schema(self) ==
    IF self.allowed_schema = <<>>
    THEN Failure(for_system("InvalidInput",
                 Message("No allowed schemes were provided, please provide at least one allowed scheme.", <<>>)),
                 <<>>)
    ELSE Success(self.allowed_schema)

\* The result of a step of build() that takes &mut self, and the builder then.
Step(self, result) == [self |-> self, result |-> result]

\* verify_default_scheme reading the default scheme and leaving it in place.
verify_default_scheme_left_in_place(self, allowed) ==
    IF ~self.default_scheme.some
    THEN Step(self, Failure(for_user("InvalidInput",
              Message("A default scheme was not provided. Please provide a default scheme.", <<>>)),
              <<>>))
    ELSE IF trim(self.default_scheme.value) = <<>>
    THEN Step(self, Failure(for_system("InvalidInput",
              Message("The provided default scheme is empty or all whitespace. Please provide a non-empty default scheme.", <<>>)),
              <<>>))
    ELSE IF ~vec_contains(allowed, self.default_scheme.value)
    THEN Step(self, Failure(for_system("InvalidInput",
              Message("The provided default scheme '{}' is not in the list of allowed schemes: {:?}. Either provide a default scheme that is in the list of allowed schemes, or update the list of allowed schema to include the default schema.",
                      <<self.default_scheme.value, debug(allowed)>>)),
              <<>>))
    ELSE Step(self, Success(self.default_scheme.value))

\* verify_default_scheme(&mut self, allowed_schema): take() leaves None in the
\* builder whatever comes next.
verify_default_scheme(self, allowed) ==
    LET taken == self.default_scheme
        after == [self EXCEPT !.default_scheme = Nothing(<<>>)]
    IN  IF ~taken.some
        THEN Step(after, Failure(for_user("InvalidInput",
                  Message("A default scheme was not provided. Please provide a default scheme.", <<>>)),
                  <<>>))
        ELSE IF trim(taken.value) = <<>>
        THEN Step(after, Failure(for_system("InvalidInput",
                  Message("The provided default scheme is empty or all whitespace. Please provide a non-empty default scheme.", <<>>)),
                  <<>>))
        ELSE IF ~vec_contains(allowed, taken.value)
        THEN Step(after, Failure(for_system("InvalidInput",
                  Message("The provided default scheme '{}' is not in the list of allowed schemes: {:?}. Either provide a default scheme that is in the list of allowed schemes, or update the list of allowed schema to include the default schema.",
                          <<taken.value, debug(allowed)>>)),
                  <<>>))
        ELSE Step(after, Success(taken.value))

\* verify_repo_link_not_malformed(&self, repo_link)
verify_repo_link_not_malformed(link) ==
    IF link # <<>> /\ is_alphanumeric(link[1])
    THEN Success(<<>>)
    ELSE LET parts == split(link, SchemeSeparator)
         IN  IF Len(parts) # 2 \/ parts[2] = <<>>
             THEN Failure(for_system("InvalidInput",
                          Message("The repository link [{}] is malformed. It must either start with contain a scheme separator '://' or be formatted as [scheme]://[host] per for the RFC 3986 specification.",
                                  <<link>>)),
                          <<>>)
             ELSE Success(<<>>)

\* apply_default_scheme_to_repo_link(&self, repo_link, default_scheme)
apply_default_scheme_to_repo_link(link, scheme) ==
    IF contains(link, SchemeSeparator)
    THEN LET parts == split(link, SchemeSeparator)
         IN  IF parts[1] = <<>> THEN scheme \o SchemeSeparator \o parts[2]
                                ELSE link
    ELSE scheme \o SchemeSeparator \o link

\* extract_repo_link_schema(&self, link)
extract_repo_link_schema(link) == split(link, SchemeSeparator)[1]

\* verify_repo_link_scheme_is_allowed letting every scheme through.
any_repo_link_scheme_is_allowed(link, allowed, scheme) == Success(<<>>)

\* verify_repo_link_scheme_is_allowed(&self, verified_repo_link,
\* allowed_schemes, default_scheme)
verify_repo_link_scheme_is_allowed(link, allowed, scheme) ==
    LET repo_link_schema == extract_repo_link_schema(link)
    IN  IF vec_contains(allowed, repo_link_schema)
        THEN Success(<<>>)
        ELSE Failure(for_system("InvalidInput",
                     Message("The url scheme '{}' is not allowed. Allowed schemes are {:?} and the default scheme is '{}'.",
                             <<repo_link_schema, debug(allowed), scheme>>)),
                     <<>>)

\* verify_repo_link(&mut self, allowed_schema, default_schema): take() leaves
\* None in the builder whatever comes next.
verify_repo_link(self, allowed, scheme) ==
    LET taken == self.repo_link
        after == [self EXCEPT !.repo_link = Nothing(<<>>)]
    IN  IF ~taken.some
        THEN Step(after, Failure(for_system("InvalidInput",
                  Message("A repository link was not provided. Please provide a repository link.", <<>>)),
                  <<>>))
        ELSE IF trim(taken.value) = <<>>
        THEN Step(after, Failure(for_system("InvalidInput",
                  Message("The provided repository link is empty or all whitespace. Please provide a non-empty repository link.", <<>>)),
                  <<>>))
        ELSE IF ~verify_repo_link_not_malformed(taken.value).ok
        THEN Step(after, verify_repo_link_not_malformed(taken.value))
        ELSE LET repo_link_with_scheme ==
                     apply_default_scheme_to_repo_link(taken.value, scheme)
                 allowed_check ==
                     verify_repo_link_scheme_is_allowed(repo_link_with_scheme, allowed, scheme)
             IN  IF ~allowed_check.ok THEN Step(after, allowed_check)
                 ELSE Step(after, Success(repo_link_with_scheme))

\* RepositoryLinkBuilder::build(&mut self): each ? returns the Err of its
\* operand.  URL::new is not part of these files: url_accepts says whether it
\* returns Ok, and the URL it returns is held as the text it was made from.
RepositoryLinkBuilder_build(self, url_accepts) ==
    LET allowed == verify_allowed_schema(self)
    IN  IF ~allowed.ok THEN Step(self, Failure(allowed.error, NoLink))
        ELSE
    LET scheme == verify_default_scheme(self, allowed.val)
    IN  IF ~scheme.result.ok THEN Step(scheme.self, Failure(scheme.result.error, NoLink))
        ELSE
    LET link == verify_repo_link(scheme.self, allowed.val, scheme.result.val)
    IN  IF ~link.result.ok THEN Step(link.self, Failure(link.result.error, NoLink))
        ELSE IF ~url_accepts
        THEN Step(link.self, Failure(for_system("InvalidInput",
                  Message("The provided repository link [{}] is malformed. {}",
                          <<link.result.val, <<>> >>)),
                  NoLink))
        ELSE Step(link.self, Success([url |-> [value |-> link.result.val]]))

---------------------------------------------------------------------------
(* The repository-link scenario: the setters are called on a new builder in *)
(* any order, any number of times, then build() is called, and called again.*)

\* "git", "file", "ssh", " git", "git://x" and "  "
Git == <<103, 105, 116>>

File == <<102, 105, 108, 101>>

Ssh == <<115, 115, 104>>

SpaceGit == <<32, 103, 105, 116>>

GitX == <<103, 105, 116, 58, 47, 47, 120>>

Blank == <<32, 32>>

\* Lists of allowed schemes: none; file and git; git and a scheme that holds a
\* separator; ssh and a scheme that begins with a space.
SchemaInputs == {<<>>, <<File, Git>>, <<Git, GitX>>, <<SpaceGit, Ssh>>}

\* Default schemes: git, ssh, the two odd ones, the blank and the empty one.
SchemeInputs == {Git, Ssh, SpaceGit, GitX, Blank, <<>>}

\* Links: "h", "git://h", "ssh://h", "://h", ":/h", "/h", " git://h",
\* "a://b://c", "://a://b", "git://", "://", "-x://h", "  " and "".
LinkInputs ==
    {<<104>>,
     <<103, 105, 116, 58, 47, 47, 104>>,
     <<115, 115, 104, 58, 47, 47, 104>>,
     <<58, 47, 47, 104>>,
     <<58, 47, 104>>,
     <<47, 104>>,
     <<32, 103, 105, 116, 58, 47, 47, 104>>,
     <<97, 58, 47, 47, 98, 58, 47, 47, 99>>,
     <<58, 47, 47, 97, 58, 47, 47, 98>>,
     <<103, 105, 116, 58, 47, 47>>,
     <<58, 47, 47>>,
     <<45, 120, 58, 47, 47, 104>>,
     Blank, <<>>}

RlInit ==
    /\ pc = "rl_config"
    /\ rlBuilder = RepositoryLink_builder
    /\ rlBefore = RepositoryLinkBuilder_default
    /\ rlBuilt = NotBuilt(NoLink)
    /\ rlAgain = NotBuilt(NoLink)

\* builder.allowed_schema(schema)
RlAllowedSchema ==
    /\ pc = "rl_config"
    /\ \E schema \in SchemaInputs : rlBuilder' = allowed_schema(rlBuilder, schema)
    /\ UNCHANGED <<pc, rlBefore, rlBuilt, rlAgain, identifierVars, tsVars, dtVars, fnVars>>

\* builder.default_scheme(scheme)
RlDefaultScheme ==
    /\ pc = "rl_config"
    /\ \E scheme \in SchemeInputs : rlBuilder' = default_scheme(rlBuilder, scheme)
    /\ UNCHANGED <<pc, rlBefore, rlBuilt, rlAgain, identifierVars, tsVars, dtVars, fnVars>>

\* builder.repo_link(link)
RlRepoLink ==
    /\ pc = "rl_config"
    /\ \E link \in LinkInputs : rlBuilder' = repo_link(rlBuilder, link)
    /\ UNCHANGED <<pc, rlBefore, rlBuilt, rlAgain, identifierVars, tsVars, dtVars, fnVars>>

\* builder.build()
RlBuild ==
    /\ pc = "rl_config"
    /\ \E url_accepts \in BOOLEAN :
          LET step == RepositoryLinkBuilder_build(rlBuilder, url_accepts)
          IN  /\ rlBuilt' = step.result
              /\ rlBuilder' = step.self
    /\ rlBefore' = rlBuilder
    /\ pc' = "rl_built"
    /\ UNCHANGED <<rlAgain, identifierVars, tsVars, dtVars, fnVars>>

\* builder.build() once more, on the builder the first build() left
RlBuildAgain ==
    /\ pc = "rl_built"
    /\ \E url_accepts \in BOOLEAN :
          LET step == RepositoryLinkBuilder_build(rlBuilder, url_accepts)
          IN  /\ rlAgain' = step.result
              /\ rlBuilder' = step.self
    /\ pc' = "rl_rebuilt"
    /\ UNCHANGED <<rlBefore, rlBuilt, identifierVars, tsVars, dtVars, fnVars>>

InitRl == RlInit /\ IdentifiersIdle /\ TsIdle /\ DtIdle /\ FnIdle

NextRl == RlAllowedSchema \/ RlDefaultScheme \/ RlRepoLink \/ RlBuild \/ RlBuildAgain

SpecRl == InitRl /\ [][NextRl]_vars

---------------------------------------------------------------------------
(* Claims about RepositoryLink, checked under SpecRl.                       *)

\* The places of "://" in a text, the text before the first one (the scheme)
\* and the text after it.
SeparatorsOf(str) == {i \in 1..(Len(str) - 2) : SubSeq(str, i, i + 2) = <<58, 47, 47>>}

FirstSeparator(str) == CHOOSE i \in SeparatorsOf(str) : \A j \in SeparatorsOf(str) : i <= j

SpecScheme(str) == SubSeq(str, 1, FirstSeparator(str) - 1)

SpecAfterScheme(str) == SubSeq(str, FirstSeparator(str) + 3, Len(str))

\* A text that is empty or all white space.
IsBlank(str) == \A k \in 1..Len(str) : str[k] \in SpecWhiteSpace

\* A link is malformed when it does not begin with a letter or a digit and is
\* not one "://" with text after it.
SpecMalformed(str) ==
    /\ str = <<>> \/ ~is_alphanumeric(str[1])
    /\ \/ Cardinality(SeparatorsOf(str)) # 1
       \/ SpecAfterScheme(str) = <<>>

\* The allowed schemes, default scheme and link that the first build() found.
AllowedGiven == {rlBefore.allowed_schema[k] : k \in 1..Len(rlBefore.allowed_schema)}

SchemeGiven == rlBefore.default_scheme

LinkGiven == rlBefore.repo_link

\* The link carries a scheme of its own: it has a "://" that is not at its start.
OwnScheme == SeparatorsOf(LinkGiven.value) # {} /\ SpecScheme(LinkGiven.value) # <<>>

FirstBuildDone == pc \in {"rl_built", "rl_rebuilt"}

C30_BuildConsumes ==
    /\ (pc = "rl_built" /\ rlBuilt.ok) =>
          /\ ~rlBuilder.default_scheme.some
          /\ ~rlBuilder.repo_link.some
          /\ rlBuilder.allowed_schema = rlBefore.allowed_schema
    /\ (pc = "rl_rebuilt" /\ rlBuilt.ok) =>
          /\ ~rlAgain.ok
          /\ rlAgain.error.kind = "InvalidInput"
          /\ rlAgain.error.audience = "User"
          /\ rlAgain.error.message =
                Message("A default scheme was not provided. Please provide a default scheme.", <<>>)
          /\ rlBuilder.allowed_schema = rlBefore.allowed_schema

\* build() returned Ok, and the build() after it returned an Err.
C30_Witness ==
    /\ pc = "rl_rebuilt"
    /\ rlBuilt.ok
    /\ ~rlAgain.ok
    /\ rlBefore.allowed_schema # <<>>

----------------------------------------------------------------------------
(* The text of an identifier, field by field.                               *)

\* The alphabet symbol of rank d: the inverse of SpecDigit on 0..31.
SpecSymbol(d) == CHOOSE c \in SpecAlphabet : Cardinality({x \in SpecAlphabet : x < c}) = d

\* The n base-32 digits of a bit field, most significant first, as alphabet
\* symbols; the bits past the field's width read as 0.
FieldText(bits, n) ==
    [k \in 1..n |->
        SpecSymbol(
            LET Bit(j) == IF j \in DOMAIN bits THEN bits[j] ELSE 0
                low == 5 * (n - k)
            IN  Bit(low) + 2 * Bit(low + 1) + 4 * Bit(low + 2)
                    + 8 * Bit(low + 3) + 16 * Bit(low + 4))]

Head10(s) == SubSeq(s, 1, 10)

Tail16(s) == SubSeq(s, 11, 26)

\* The base-32 successor of a digit text that is not all 'Z': its last symbol
\* other than 'Z' steps to the next symbol of the alphabet, and the 'Z's after
\* it become '0'.
HasTextSucc(s) == \E p \in 1..Len(s) : s[p] # 90

TextSucc(s) ==
    LET p == CHOOSE q \in 1..Len(s) : s[q] # 90 /\ \A r \in (q + 1)..Len(s) : s[r] = 90
    IN  [k \in 1..Len(s) |->
            IF k < p THEN s[k]
            ELSE IF k = p THEN SpecSymbol(SpecDigit(s[k]) + 1)
            ELSE 48]

\* "AZZZZZZZZZZZZZZZ" and "B000000000000000"
TextAZ == <<65>> \o [k \in 1..15 |-> 90]

TextB0 == <<66>> \o [k \in 1..15 |-> 48]

\* C28: the first 10 characters of to_string() of every identifier are the ten
\* base-32 digits of its 48-bit time field and the last 16 are the sixteen
\* digits of its 80-bit random field; after a successful increment the first
\* 10 characters are those of the identifier incremented, and the last 16 are
\* the base-32 successor of its last 16, carries included.
C28_TextSplitsAtFieldBoundary ==
    /\ \A u \in {origin, prev, id} :
          LET s == to_string(u)
          IN  /\ Head10(s) = FieldText(TimeBitsOf(u), 10)
              /\ Tail16(s) = FieldText(RandBitsOf(u), 16)
    /\ pc = "chain" =>
          LET before == to_string(prev)
              after == to_string(last.ulid)
          IN  /\ last.some
              /\ Head10(after) = Head10(before)
              /\ HasTextSucc(Tail16(before))
              /\ Tail16(after) = TextSucc(Tail16(before))

\* The increment of test_increment: a tail AZZZZZZZZZZZZZZZ became
\* B000000000000000 under an unchanged, non-zero time.
C28_Witness ==
    /\ pc = "chain"
    /\ last.some
    /\ Tail16(to_string(prev)) = TextAZ
    /\ Tail16(to_string(last.ulid)) = TextB0
    /\ Head10(to_string(last.ulid)) = Head10(to_string(prev))
    /\ Head10(to_string(prev)) # [k \in 1..10 |-> 48]

----------------------------------------------------------------------------
(* The lookup table against the alphabet.                                   *)

\* ALPHABET[i] and LOOKUP[b] with the source's indices, from 0.
AlphabetAt(i) == ALPHABET[i + 1]

LookupAt(b) == LOOKUP[b + 1]

IsLetter(c) == c \in (65..90) \cup (97..122)

\* The bytes the alphabet names: its symbols, and the lowercase forms of those
\* that are letters.
NamedBytes ==
    {AlphabetAt(i) : i \in 0..31}
        \cup {AlphabetAt(i) + 32 : i \in {j \in 0..31 : IsLetter(AlphabetAt(j))}}

\* C29: LOOKUP has an entry for each byte 0..255; for each i in 0..31,
\* LOOKUP[ALPHABET[i]] = i and, when ALPHABET[i] is a letter,
\* LOOKUP[ALPHABET[i] + 32] = i; every other byte maps to NO_VALUE = 255, and
\* no digit 0..31 is NO_VALUE; so the entry of each byte of the text in hand
\* is NO_VALUE exactly when the alphabet does not name the byte.
C29_LookupInvertsAlphabet ==
    /\ \A i \in 1..Len(text) : (LookupAt(text[i]) = NO_VALUE) <=> (text[i] \notin NamedBytes)
    /\ DOMAIN LOOKUP = 1..256
    /\ \A i \in 0..31 :
          /\ LookupAt(AlphabetAt(i)) = i
          /\ IsLetter(AlphabetAt(i)) => LookupAt(AlphabetAt(i) + 32) = i
    /\ \A b \in (0..255) \ NamedBytes : LookupAt(b) = NO_VALUE
    /\ NO_VALUE = 255
    /\ NO_VALUE \notin 0..31

\* decode has read the table at a digit, an uppercase letter and a lowercase
\* letter of one text, found a digit 0..31 at each of its bytes, the same one
\* for the letter in either case, and accepted the text.
C29_Witness ==
    /\ pc = "upper"
    /\ decoded.ok
    /\ Len(text) = 26
    /\ \E i, j, k \in 1..Len(text) :
          /\ text[i] \in 48..57
          /\ text[j] \in 65..90
          /\ text[k] \in 97..122
          /\ LookupAt(text[k]) = LookupAt(text[k] - 32)
    /\ \A i \in 1..Len(text) : LookupAt(text[i]) \in 0..31

====
